---- MODULE Spec2Model ----
(***************************************************************************)
(* Model of the AI tutor's retrieval pipeline: PDFProcessor (chapter text  *)
(* assembly and chunking, pdf_processor.py), RAGEngine (ingestion, search, *)
(* answer synthesis, rag_engine.py) and the rebuild scripts (init_db.py,   *)
(* app.py).                                                                *)
(*                                                                         *)
(* A text is a sequence of characters, one string per character.  The two  *)
(* CJK characters of the page marker are written DI and YE.                *)
(***************************************************************************)
EXTENDS Integers, Sequences, FiniteSets, TLC

\* ------------------------------------------------------------ config.py
CHAPTER_NUMBER == 10
CHAPTER_10_START_PAGE == 419
CHAPTER_10_END_PAGE == 438
CHUNK_SIZE == 500
CHUNK_OVERLAP == 100
TOP_K == 5
\* rag_engine.py, local constant of generate_answer
PAGE_OFFSET == 16

\* ------------------------------------------------------------ bounds
\* paragraphs per generated input text
MaxParas == 3
\* pages of the chapter range that the opened document holds
MaxDocPages == 2
\* chunks per batch of an init_db.main run
MaxBatch == 10
\* chunks per batch handed to the engine's interface
MaxChunks == 2
\* presses of the app's clear button in a row
MaxClears == 2
MaxQuizzes == 3
MaxRebuild == 3

\* ------------------------------------------------------------ characters
DI == "di"
YE == "ye"
NL == "\n"
SP == " "
\* str.strip() removes these (the whitespace of the model's alphabet)
Whitespace == {SP, NL}
Digits == {"0", "1", "2", "3", "4", "5", "6", "7", "8", "9"}
SOURCE_LABEL == "ch10-anomaly-detection"

DigitVal(c) ==
  CASE c = "0" -> 0 [] c = "1" -> 1 [] c = "2" -> 2 [] c = "3" -> 3 [] c = "4" -> 4
    [] c = "5" -> 5 [] c = "6" -> 6 [] c = "7" -> 7 [] c = "8" -> 8 [] c = "9" -> 9

DigitChar(d) == <<"0", "1", "2", "3", "4", "5", "6", "7", "8", "9">>[d + 1]

Rep(c, n) == [i \in 1..n |-> c]

Tail2(s, i) == SubSeq(s, i, Len(s))

MinOf(S) == CHOOSE x \in S : \A y \in S : x <= y

\* int(group(1)): decimal digits to a number
RECURSIVE ToInt(_)
ToInt(ds) ==
  IF ds = <<>> THEN 0
  ELSE 10 * ToInt(SubSeq(ds, 1, Len(ds) - 1)) + DigitVal(ds[Len(ds)])

\* str(n) of an f-string, n >= 0
RECURSIVE ToStr(_)
ToStr(n) ==
  IF n < 10 THEN <<DigitChar(n)>> ELSE ToStr(n \div 10) \o <<DigitChar(n % 10)>>

\* ------------------------------------------------------------ str methods
\* first index >= i that holds no whitespace (Len(s)+1 when there is none)
RECURSIVE SkipWs(_, _)
SkipWs(s, i) ==
  IF i <= Len(s) /\ s[i] \in Whitespace THEN SkipWs(s, i + 1) ELSE i

\* last index <= i that holds no whitespace (0 when there is none)
RECURSIVE SkipWsBack(_, _)
SkipWsBack(s, i) ==
  IF i >= 1 /\ s[i] \in Whitespace THEN SkipWsBack(s, i - 1) ELSE i

\* str.strip()
strip(s) == SubSeq(s, SkipWs(s, 1), SkipWsBack(s, Len(s)))

\* index of the first "\n\n" in s, 0 when there is none
FirstSep(s) ==
  LET hits == {i \in 1..(Len(s) - 1) : s[i] = NL /\ s[i + 1] = NL}
  IN IF hits = {} THEN 0 ELSE MinOf(hits)

\* str.split('\n\n')
RECURSIVE split(_)
split(s) ==
  LET i == FirstSep(s)
  IN IF i = 0 THEN <<s>>
     ELSE <<SubSeq(s, 1, i - 1)>> \o split(Tail2(s, i + 2))

\* s[-n:]
Suffix(s, n) == IF Len(s) <= n THEN s ELSE SubSeq(s, Len(s) - n + 1, Len(s))

\* s[:n]
Prefix(s, n) == IF Len(s) <= n THEN s ELSE SubSeq(s, 1, n)

\* ------------------------------------------------------------ page marker regex
\* first index >= k that holds no digit
RECURSIVE DigitsEnd(_, _)
DigitsEnd(s, k) ==
  IF k <= Len(s) /\ s[k] \in Digits THEN DigitsEnd(s, k + 1) ELSE k

\* r'\[DI(\d+)YE\]' matched at index i: the index of its closing bracket, else 0
MarkerEnd(s, i) ==
  IF i + 4 <= Len(s) /\ s[i] = "[" /\ s[i + 1] = DI
  THEN LET j == DigitsEnd(s, i + 2)
       IN IF j > i + 2 /\ j + 1 <= Len(s) /\ s[j] = YE /\ s[j + 1] = "]"
          THEN j + 1 ELSE 0
  ELSE 0

\* re.search: the start of the leftmost match, 0 when there is none
MarkerStart(s) ==
  LET hits == {i \in 1..Len(s) : s[i] = "[" /\ MarkerEnd(s, i) # 0}
  IN IF hits = {} THEN 0 ELSE MinOf(hits)

\* int(page_match.group(1)) of the match starting at i
MarkerPage(s, i) == ToInt(SubSeq(s, i + 2, MarkerEnd(s, i) - 2))

\* re.sub(r'\[DI\d+YE\]\n?', '', s): every match, left to right, with one
\* newline after it when there is one
RECURSIVE RemoveMarkers(_)
RemoveMarkers(s) ==
  LET i == MarkerStart(s)
  IN IF i = 0 THEN s
     ELSE LET e == MarkerEnd(s, i)
              e2 == IF e + 1 <= Len(s) /\ s[e + 1] = NL THEN e + 1 ELSE e
          IN SubSeq(s, 1, i - 1) \o RemoveMarkers(Tail2(s, e2 + 1))

\* ------------------------------------------------------------ PDFProcessor
\* self.start_page, set by __init__ (0-based)
start_page == CHAPTER_10_START_PAGE - 1

Chunk(buf, page, id) ==
  [text |-> strip(buf),
   metadata |-> [page |-> page, chunk_id |-> id, chapter |-> CHAPTER_NUMBER,
                 source |-> SOURCE_LABEL]]

\* the state before the loop with the 0-based index as the first page
LoopInitZeroBased ==
  [chunks |-> <<>>, current_chunk |-> <<>>, current_page |-> start_page,
   chunk_id |-> 0, seeded |-> <<>>, buffers |-> <<>>, overlaps |-> <<>>,
   n |-> 0, last |-> 0, lasts |-> <<>>]

\* the locals of create_chunks before the first paragraph.  buffers and
\* overlaps record, per emitted chunk, current_chunk as it was when the chunk
\* was appended and the overlap_text its buffer had been seeded with.
\* n counts the paragraphs read, last is the index of the paragraph appended
\* last to current_chunk, lasts records it per emitted chunk.
LoopInit ==
  [chunks |-> <<>>, current_chunk |-> <<>>, current_page |-> start_page + 1,
   chunk_id |-> 0, seeded |-> <<>>, buffers |-> <<>>, overlaps |-> <<>>,
   n |-> 0, last |-> 0, lasts |-> <<>>]

\* LoopBody with a slip: on overflow the new buffer keeps the overlap but
\* not the paragraph that overflowed
LoopBodyDropsParagraph(st, para0) ==
  LET m == MarkerStart(para0)
      page == IF m # 0 THEN MarkerPage(para0, m) ELSE st.current_page
      para == IF m # 0 THEN RemoveMarkers(para0) ELSE para0
      cur == st.current_chunk
      st1 == [st EXCEPT !.current_page = page, !.n = @ + 1]
  IN IF strip(para) = <<>> THEN st1
     ELSE IF Len(cur) + Len(para) < CHUNK_SIZE
     THEN [st1 EXCEPT !.current_chunk = cur \o para \o <<NL, NL>>, !.last = st1.n]
     ELSE LET st2 == IF strip(cur) # <<>>
                     THEN [st1 EXCEPT
                             !.chunks = Append(@, Chunk(cur, page, st.chunk_id)),
                             !.chunk_id = @ + 1,
                             !.buffers = Append(@, cur),
                             !.overlaps = Append(@, st.seeded),
                             !.lasts = Append(@, st.last)]
                     ELSE st1
          IN IF Len(cur) > CHUNK_OVERLAP
             THEN LET overlap_text == Suffix(cur, CHUNK_OVERLAP)
                  IN [st2 EXCEPT !.current_chunk = overlap_text,
                                 !.seeded = overlap_text, !.last = st1.n]
             ELSE [st2 EXCEPT !.current_chunk = para \o <<NL, NL>>,
                              !.seeded = <<>>, !.last = st1.n]

\* LoopBody with a slip: the overlap is cut from the stripped buffer
LoopBodyOverlapOfText(st, para0) ==
  LET m == MarkerStart(para0)
      page == IF m # 0 THEN MarkerPage(para0, m) ELSE st.current_page
      para == IF m # 0 THEN RemoveMarkers(para0) ELSE para0
      cur == st.current_chunk
      st1 == [st EXCEPT !.current_page = page, !.n = @ + 1]
  IN IF strip(para) = <<>> THEN st1
     ELSE IF Len(cur) + Len(para) < CHUNK_SIZE
     THEN [st1 EXCEPT !.current_chunk = cur \o para \o <<NL, NL>>, !.last = st1.n]
     ELSE LET st2 == IF strip(cur) # <<>>
                     THEN [st1 EXCEPT
                             !.chunks = Append(@, Chunk(cur, page, st.chunk_id)),
                             !.chunk_id = @ + 1,
                             !.buffers = Append(@, cur),
                             !.overlaps = Append(@, st.seeded),
                             !.lasts = Append(@, st.last)]
                     ELSE st1
          IN IF Len(cur) > CHUNK_OVERLAP
             THEN LET overlap_text == Suffix(strip(cur), CHUNK_OVERLAP)
                  IN [st2 EXCEPT !.current_chunk = overlap_text \o para \o <<NL, NL>>,
                                 !.seeded = overlap_text, !.last = st1.n]
             ELSE [st2 EXCEPT !.current_chunk = para \o <<NL, NL>>,
                              !.seeded = <<>>, !.last = st1.n]

\* LoopBody with a slip: a paragraph of CHUNK_SIZE or more is cut
LoopBodySplitsParagraph(st, para0) ==
  LET m == MarkerStart(para0)
      page == IF m # 0 THEN MarkerPage(para0, m) ELSE st.current_page
      para1 == IF m # 0 THEN RemoveMarkers(para0) ELSE para0
      para == IF Len(para1) >= CHUNK_SIZE THEN Prefix(para1, CHUNK_SIZE - 1) ELSE para1
      cur == st.current_chunk
      st1 == [st EXCEPT !.current_page = page, !.n = @ + 1]
  IN IF strip(para) = <<>> THEN st1
     ELSE IF Len(cur) + Len(para) < CHUNK_SIZE
     THEN [st1 EXCEPT !.current_chunk = cur \o para \o <<NL, NL>>, !.last = st1.n]
     ELSE LET st2 == IF strip(cur) # <<>>
                     THEN [st1 EXCEPT
                             !.chunks = Append(@, Chunk(cur, page, st.chunk_id)),
                             !.chunk_id = @ + 1,
                             !.buffers = Append(@, cur),
                             !.overlaps = Append(@, st.seeded),
                             !.lasts = Append(@, st.last)]
                     ELSE st1
          IN IF Len(cur) > CHUNK_OVERLAP
             THEN LET overlap_text == Suffix(cur, CHUNK_OVERLAP)
                  IN [st2 EXCEPT !.current_chunk = overlap_text \o para \o <<NL, NL>>,
                                 !.seeded = overlap_text, !.last = st1.n]
             ELSE [st2 EXCEPT !.current_chunk = para \o <<NL, NL>>,
                              !.seeded = <<>>, !.last = st1.n]

\* LoopBody with a slip: the overlap is twice CHUNK_OVERLAP long
LoopBodyDoubleOverlap(st, para0) ==
  LET m == MarkerStart(para0)
      page == IF m # 0 THEN MarkerPage(para0, m) ELSE st.current_page
      para == IF m # 0 THEN RemoveMarkers(para0) ELSE para0
      cur == st.current_chunk
      st1 == [st EXCEPT !.current_page = page, !.n = @ + 1]
  IN IF strip(para) = <<>> THEN st1
     ELSE IF Len(cur) + Len(para) < CHUNK_SIZE
     THEN [st1 EXCEPT !.current_chunk = cur \o para \o <<NL, NL>>, !.last = st1.n]
     ELSE LET st2 == IF strip(cur) # <<>>
                     THEN [st1 EXCEPT
                             !.chunks = Append(@, Chunk(cur, page, st.chunk_id)),
                             !.chunk_id = @ + 1,
                             !.buffers = Append(@, cur),
                             !.overlaps = Append(@, st.seeded),
                             !.lasts = Append(@, st.last)]
                     ELSE st1
          IN IF Len(cur) > CHUNK_OVERLAP
             THEN LET overlap_text == Suffix(cur, 2 * CHUNK_OVERLAP)
                  IN [st2 EXCEPT !.current_chunk = overlap_text \o para \o <<NL, NL>>,
                                 !.seeded = overlap_text, !.last = st1.n]
             ELSE [st2 EXCEPT !.current_chunk = para \o <<NL, NL>>,
                              !.seeded = <<>>, !.last = st1.n]

\* one iteration of "for para in paragraphs"
LoopBody(st, para0) ==
  LET m == MarkerStart(para0)
      page == IF m # 0 THEN MarkerPage(para0, m) ELSE st.current_page
      para == IF m # 0 THEN RemoveMarkers(para0) ELSE para0
      cur == st.current_chunk
      st1 == [st EXCEPT !.current_page = page, !.n = @ + 1]
  IN IF strip(para) = <<>> THEN st1
     ELSE IF Len(cur) + Len(para) < CHUNK_SIZE
     THEN [st1 EXCEPT !.current_chunk = cur \o para \o <<NL, NL>>, !.last = st1.n]
     ELSE LET st2 == IF strip(cur) # <<>>
                     THEN [st1 EXCEPT
                             !.chunks = Append(@, Chunk(cur, page, st.chunk_id)),
                             !.chunk_id = @ + 1,
                             !.buffers = Append(@, cur),
                             !.overlaps = Append(@, st.seeded),
                             !.lasts = Append(@, st.last)]
                     ELSE st1
          IN IF Len(cur) > CHUNK_OVERLAP
             THEN LET overlap_text == Suffix(cur, CHUNK_OVERLAP)
                  IN [st2 EXCEPT !.current_chunk = overlap_text \o para \o <<NL, NL>>,
                                 !.seeded = overlap_text, !.last = st1.n]
             ELSE [st2 EXCEPT !.current_chunk = para \o <<NL, NL>>,
                              !.seeded = <<>>, !.last = st1.n]

RECURSIVE Loop(_, _, _)
Loop(paragraphs, i, st) ==
  IF i > Len(paragraphs) THEN st
  ELSE Loop(paragraphs, i + 1, LoopBody(st, paragraphs[i]))

\* LoopEnd with a slip: the last chunk is numbered from 0 again
LoopEndRestartsId(st) ==
  IF strip(st.current_chunk) # <<>>
  THEN [st EXCEPT
          !.chunks = Append(@, Chunk(st.current_chunk, st.current_page, 0)),
          !.buffers = Append(@, st.current_chunk),
          !.overlaps = Append(@, st.seeded),
          !.lasts = Append(@, st.last)]
  ELSE st

\* LoopEnd with a slip: the buffer is flushed whatever it holds
LoopEndFlushesBlank(st) ==
  [st EXCEPT
     !.chunks = Append(@, Chunk(st.current_chunk, st.current_page, st.chunk_id)),
     !.buffers = Append(@, st.current_chunk),
     !.overlaps = Append(@, st.seeded),
     !.lasts = Append(@, st.last)]

\* the flush after the loop
LoopEnd(st) ==
  IF strip(st.current_chunk) # <<>>
  THEN [st EXCEPT
          !.chunks = Append(@, Chunk(st.current_chunk, st.current_page, st.chunk_id)),
          !.buffers = Append(@, st.current_chunk),
          !.overlaps = Append(@, st.seeded),
          !.lasts = Append(@, st.last)]
  ELSE st

\* create_chunks from "chunks = []" on, for a non-empty text
ChunkRun(t) == LoopEnd(Loop(split(t), 1, LoopInit))

\* what create_chunks returns once the text to split is known
ChunksOf(t) == IF t = <<>> THEN <<>> ELSE ChunkRun(t).chunks

\* length of the run of character c that starts at index i
RECURSIVE RunEnd(_, _, _)
RunEnd(s, c, i) == IF i <= Len(s) /\ s[i] = c THEN RunEnd(s, c, i + 1) ELSE i

\* re.sub of "k or more c" by r: every maximal run of c of length >= k
RECURSIVE SubRuns(_, _, _, _)
SubRuns(s, c, k, r) ==
  LET hits == {i \in 1..Len(s) : s[i] = c}
  IN IF hits = {} THEN s
     ELSE LET i == MinOf(hits)
              e == RunEnd(s, c, i)
          IN SubSeq(s, 1, i - 1)
               \o (IF e - i >= k THEN r ELSE SubSeq(s, i, e - 1))
               \o SubRuns(Tail2(s, e), c, k, r)

_clean_text(t) ==
  IF t = <<>> THEN <<>>
  ELSE strip(SubRuns(SubRuns(t, NL, 3, <<NL, NL>>), SP, 2, <<SP>>))

\* "\n\n".join(parts)
RECURSIVE Join(_)
Join(parts) ==
  IF parts = <<>> THEN <<>>
  ELSE IF Len(parts) = 1 THEN parts[1]
  ELSE parts[1] \o <<NL, NL>> \o Join(Tail(parts))

\* f"[DI{n}YE]"
Marker(n) == <<"[", DI>> \o ToStr(n) \o <<YE, "]">>

\* open_pdf: the document handle afterwards (0: None; else len(self.doc)).
\* file_len = 0 stands for a file fitz cannot open.
open_pdf(file_len) == file_len

\* get_chapter_pages: self.end_page afterwards
get_chapter_pages(d, ep) == IF d # 0 /\ ep >= d THEN d - 1 ELSE ep

\* extract_text_from_page_glm4v: "" without a client, on any exception (a
\* missing document, a service failure), else the stripped recognised text
extract_text_from_page_glm4v(client, d, recognised, page_num) ==
  IF ~client THEN <<>>
  ELSE IF d = 0 \/ page_num >= d THEN <<>>
  ELSE strip(recognised[page_num])

\* the loop with a block for every page, recognised or not
RECURSIVE PagePartsKeepsBlank(_, _, _, _, _)
PagePartsKeepsBlank(client, d, recognised, page_num, end) ==
  IF page_num > end THEN <<>>
  ELSE LET t == extract_text_from_page_glm4v(client, d, recognised, page_num)
       IN <<Marker(page_num + 1) \o <<NL>> \o _clean_text(t)>>
            \o PagePartsKeepsBlank(client, d, recognised, page_num + 1, end)

\* the loop of extract_chapter_text over range(page_num, end + 1)
RECURSIVE PageParts(_, _, _, _, _)
PageParts(client, d, recognised, page_num, end) ==
  IF page_num > end THEN <<>>
  ELSE LET t == extract_text_from_page_glm4v(client, d, recognised, page_num)
           rest == PageParts(client, d, recognised, page_num + 1, end)
       IN IF t # <<>>
          THEN <<Marker(page_num + 1) \o <<NL>> \o _clean_text(t)>> \o rest
          ELSE rest

\* extract_chapter_text on a processor (doc d, end page ep, chapter text ct):
\* the fields afterwards and the returned text
extract_chapter_text(client, file_len, recognised, d, ep, ct) ==
  LET d1 == IF d = 0 THEN open_pdf(file_len) ELSE d
  IN IF ~client THEN [doc |-> d1, end_page |-> ep, chapter_text |-> ct, ret |-> <<>>]
     ELSE LET ep1 == get_chapter_pages(d1, ep)
              t == Join(PageParts(client, d1, recognised, start_page, ep1))
          IN [doc |-> d1, end_page |-> ep1, chapter_text |-> t, ret |-> t]

\* create_chunks(text); given = FALSE is the call without an argument
\* (text is None).  The fields afterwards, the text that was split and the
\* returned chunks.
create_chunks(given, arg, client, file_len, recognised, d, ep, ct) ==
  LET t1 == IF given THEN arg ELSE ct
      x == extract_chapter_text(client, file_len, recognised, d, ep, ct)
      t2 == IF t1 = <<>> THEN x.ret ELSE t1
  IN [doc |-> IF t1 = <<>> THEN x.doc ELSE d,
      end_page |-> IF t1 = <<>> THEN x.end_page ELSE ep,
      chapter_text |-> IF t1 = <<>> THEN x.chapter_text ELSE ct,
      text |-> t2,
      ret |-> ChunksOf(t2)]

\* ------------------------------------------------------------ RAGEngine
\* f"chunk_{CHAPTER_NUMBER}_{i}"
\* ids counted from one
ChunkIdStrFromOne(i) ==
  <<"c", "h", "u", "n", "k", "_">> \o ToStr(CHAPTER_NUMBER) \o <<"_">> \o ToStr(i + 1)

ChunkIdStr(i) ==
  <<"c", "h", "u", "n", "k", "_">> \o ToStr(CHAPTER_NUMBER) \o <<"_">> \o ToStr(i)

\* the vector the embedding service answers for a text when the call succeeds
Embedding(t) == [of |-> t]

\* get_embedding: raises without a client and when the service call fails
get_embedding(client, service_ok, t) ==
  IF ~client \/ ~service_ok
  THEN [raised |-> TRUE, value |-> Embedding(<<>>)]
  ELSE [raised |-> FALSE, value |-> Embedding(t)]

\* collection.count()
count(st) == Cardinality(st)

StoredIds(st) == {e.id : e \in st}

\* the entries add(ids, documents, metadatas, embeddings) is called with
NewEntries(is, ds, ms, es) ==
  {[id |-> is[k], document |-> ds[k], metadata |-> ms[k], embedding |-> es[k]] :
     k \in 1..Len(is)}

\* collection.add: ids the collection already holds are rejected with an
\* error (policy "raise") or left as they are (policy "ignore"), depending on
\* the chromadb release
collection_add(st, policy, is, ds, ms, es) ==
  LET new == NewEntries(is, ds, ms, es)
      fresh == {e \in new : e.id \notin StoredIds(st)}
  IN IF policy = "raise" /\ fresh # new
     THEN [raised |-> TRUE, store |-> st]
     ELSE [raised |-> FALSE, store |-> st \cup fresh]

\* the page shown for a context document: doc["metadata"].get("page", 0)
PdfPage(d) == IF "page" \in DOMAIN d.metadata THEN d.metadata.page ELSE 0

\* Source with a slip: the offset is added
SourceAddsOffset(d) ==
  [pdf_page |-> PdfPage(d),
   book_page |-> PdfPage(d) + PAGE_OFFSET,
   preview |-> Prefix(d.text, 100) \o <<".", ".", ".">>]

\* one entry of sources
Source(d) ==
  [pdf_page |-> PdfPage(d),
   book_page |-> PdfPage(d) - PAGE_OFFSET,
   preview |-> Prefix(d.text, 100) \o <<".", ".", ".">>]

\* one entry of context_parts: its number, both pages and the text
ContextPart(i, d) ==
  [number |-> i, pdf_page |-> PdfPage(d), book_page |-> PdfPage(d) - PAGE_OFFSET,
   text |-> d.text]

NoResult ==
  [op |-> "none", raised |-> FALSE, kind |-> "none", cause |-> "none",
   sources |-> <<>>, docs |-> <<>>, context |-> <<>>, called |-> FALSE,
   service |-> "none", prompt |-> <<>>, n |-> 0]

\* generate_answer with a slip: no check of the client before the request
generate_answerNoGuard(client, context_docs, gen) ==
  LET sources == [i \in 1..Len(context_docs) |-> Source(context_docs[i])]
      parts == [i \in 1..Len(context_docs) |-> ContextPart(i, context_docs[i])]
      r == [NoResult EXCEPT !.op = "generate_answer", !.sources = sources,
                            !.context = context_docs, !.called = TRUE,
                            !.prompt = parts]
  IN IF gen.ok /\ client
     THEN [r EXCEPT !.kind = "generated", !.service = "ok"]
     ELSE [r EXCEPT !.kind = "generation_failed", !.service = "failed",
                    !.cause = gen.cause]

\* generate_answer with a slip: the except branch returns no sources
generate_answerDropsSources(client, context_docs, gen) ==
  IF ~client
  THEN [NoResult EXCEPT !.op = "generate_answer", !.kind = "no_client",
                        !.context = context_docs]
  ELSE LET sources == [i \in 1..Len(context_docs) |-> Source(context_docs[i])]
           parts == [i \in 1..Len(context_docs) |-> ContextPart(i, context_docs[i])]
           r == [NoResult EXCEPT !.op = "generate_answer", !.sources = sources,
                                 !.context = context_docs, !.called = TRUE,
                                 !.prompt = parts]
       IN IF gen.ok
          THEN [r EXCEPT !.kind = "generated", !.service = "ok"]
          ELSE [r EXCEPT !.kind = "generation_failed", !.service = "failed",
                         !.cause = gen.cause, !.sources = <<>>]

\* generate_answer(query, context_docs); gen is the outcome of the chat
\* call.  kind tells the answer texts apart: the client message, the
\* completion, or the failure message that embeds the cause.
generate_answer(client, context_docs, gen) ==
  IF ~client
  THEN [NoResult EXCEPT !.op = "generate_answer", !.kind = "no_client",
                        !.context = context_docs]
  ELSE LET sources == [i \in 1..Len(context_docs) |-> Source(context_docs[i])]
           parts == [i \in 1..Len(context_docs) |-> ContextPart(i, context_docs[i])]
           r == [NoResult EXCEPT !.op = "generate_answer", !.sources = sources,
                                 !.context = context_docs, !.called = TRUE,
                                 !.prompt = parts]
       IN IF gen.ok
          THEN [r EXCEPT !.kind = "generated", !.service = "ok"]
          ELSE [r EXCEPT !.kind = "generation_failed", !.service = "failed",
                         !.cause = gen.cause]

\* QueryDocs with a slip: n_results is not passed on
QueryDocsWithoutLimit(ranking, k) ==
  [i \in 1..Len(ranking) |->
     [text |-> ranking[i].entry.document, metadata |-> ranking[i].entry.metadata,
      distance |-> ranking[i].distance]]

\* the documents collection.query returns for a ranking (the entries of the
\* collection by ascending distance) and n_results
QueryDocs(ranking, k) ==
  [i \in 1..(IF Len(ranking) < k THEN Len(ranking) ELSE k) |->
     [text |-> ranking[i].entry.document, metadata |-> ranking[i].entry.metadata,
      distance |-> ranking[i].distance]]

\* search(query, top_k); n of the result is the top_k of the call
search(client, coll, st, service_ok, ranking, k) ==
  IF ~coll
  THEN [NoResult EXCEPT !.op = "search", !.raised = TRUE, !.cause = "AttributeError"]
  ELSE IF count(st) = 0
  THEN [NoResult EXCEPT !.op = "search", !.n = k]
  ELSE IF get_embedding(client, service_ok, <<"q">>).raised
  THEN [NoResult EXCEPT !.op = "search", !.cause = "embedding", !.n = k]
  ELSE [NoResult EXCEPT !.op = "search", !.docs = QueryDocs(ranking, k), !.n = k]

\* ask with a slip: no fallback, the answer is always generated
askWithoutFallback(client, coll, st, service_ok, ranking, gen) ==
  LET s == search(client, coll, st, service_ok, ranking, TOP_K)
  IN IF s.raised THEN [s EXCEPT !.op = "ask"]
     ELSE [generate_answer(client, s.docs, gen) EXCEPT !.op = "ask"]

\* ask(question)
ask(client, coll, st, service_ok, ranking, gen) ==
  LET s == search(client, coll, st, service_ok, ranking, TOP_K)
  IN IF s.raised THEN [s EXCEPT !.op = "ask"]
     ELSE IF s.docs = <<>>
     THEN [NoResult EXCEPT !.op = "ask", !.kind = "no_knowledge"]
     ELSE [generate_answer(client, s.docs, gen) EXCEPT !.op = "ask"]

\* clear_database with a slip: the collection is not recreated
clear_databaseKeepsEntries(coll, st) == st

\* clear_database: the collection afterwards
clear_database(coll, st) == IF coll THEN {} ELSE st

\* get_stats()["document_count"]
get_stats(coll, st) == IF coll THEN count(st) ELSE 0

\* ------------------------------------------------------------ state
VARIABLES
  \* environment of a PDFProcessor: pages of the PDF file (0: unreadable),
  \* whether ZHIPUAI_API_KEY is set, the text the vision model recognises per page
  file_len, pclient, recognised,
  \* PDFProcessor fields: self.doc (0: None, else its page count),
  \* self.end_page, self.chapter_text
  doc, end_page, chapter_text,
  \* the text handed to create_chunks(text), the chunks the last call
  \* returned, the text that call split, and which call it was
  text, chunks, chunked, call,
  \* RAGEngine fields: self.zhipu_client and self.collection are set (TRUE) or
  \* None (FALSE); store is the content of the persisted collection
  zhipu_client, collection, store,
  \* how the installed chromadb treats an add of ids it already holds
  dup_policy,
  \* add_documents in progress: where it is, its argument, the index of the
  \* next chunk and its four lists
  ad_pc, ad_chunks, ad_i, ids, documents, metadatas, embeddings,
  \* of the running or last add_documents: the indices whose embedding
  \* failed, the collection content when it was called and whether that
  \* collection had just been cleared
  failed, ad_pre, ad_fresh,
  \* TRUE from a clear_database that emptied the collection until the next add
  cleared,
  \* the outcome of the last call of the engine's interface
  res,
  \* init_db.main: whether ZHIPUAI_API_KEY is set, whether chromadb can be
  \* initialised, where the run is, its chunks and the collection content
  \* when it started
  api_key, chroma_ok, main_pc, main_chunks, pre_store,
  \* the app's knowledge base page: where init_knowledge_base is, its
  \* chunks, how its last run ended, st.session_state.db_initialized
  kb_pc, kb_chunks, kb_last, db_initialized,
  \* history: clear_database calls in a row, and the last rebuild
  \* (clear_database then add_documents) of the app with the one before it
  clears, rebuilt,
  \* the app's login and quiz pages: the module's VALID_CREDENTIALS as the
  \* last run of the script left it, and the st.session_state entries
  \* logged_in, username, current_quiz (0: None, else the number of the
  \* generated quiz), quiz_answered, quiz_results, quiz_result, quiz_history
  VALID_CREDENTIALS, logged_in, username,
  current_quiz, quiz_answered, quiz_results, quiz_result, quiz_history,
  \* history: the password each user name was last registered with, the
  \* last press of the login or register button, the quizzes generated so
  \* far and how often each of them was added to quiz_results.total
  registered, ui_last, generated, adds,
  \* the search of another engine on the same persisted collection while
  \* init_db.main runs: what the last one got, and whether one has read
  \* count() and waits for its embedding
  seen

pvars == <<file_len, pclient, recognised, doc, end_page, chapter_text,
           text, chunks, chunked, call>>


evars == <<zhipu_client, collection, store, dup_policy,
           ad_pc, ad_chunks, ad_i, ids, documents, metadatas, embeddings,
           failed, ad_pre, ad_fresh, cleared, res>>

mvars == <<api_key, chroma_ok, main_pc, main_chunks, pre_store>>

avars == <<kb_pc, kb_chunks, kb_last, db_initialized, clears, rebuilt>>

uvars == <<VALID_CREDENTIALS, logged_in, username,
           current_quiz, quiz_answered, quiz_results, quiz_result, quiz_history,
           registered, ui_last, generated, adds>>

vars == <<pvars, evars, mvars, avars, uvars, seen>>

\* ------------------------------------------------------------ engine inputs
\* a batch of n chunks as create_chunks numbers them; v tells two batches
\* apart, the third chunk is longer than a preview
Batch(v, n) ==
  [k \in 1..n |->
     [text |-> <<v>> \o ToStr(k - 1) \o Rep("x", IF k = 2 THEN 100 ELSE 0),
      metadata |-> [page |-> CHAPTER_10_START_PAGE + ((2 * k) % 3),
                    chunk_id |-> k - 1, chapter |-> CHAPTER_NUMBER,
                    source |-> SOURCE_LABEL]]]

\* the collection that holds every chunk of a batch
StoreOf(chs) ==
  {[id |-> ChunkIdStr(k - 1), document |-> chs[k].text, metadata |-> chs[k].metadata,
    embedding |-> Embedding(chs[k].text)] : k \in 1..Len(chs)}

\* the entries of the chunks with 0-based index outside F
Survivors(chs, F) ==
  {[id |-> ChunkIdStr(k - 1), document |-> chs[k].text, metadata |-> chs[k].metadata,
    embedding |-> Embedding(chs[k].text)] : k \in {j \in 1..Len(chs) : (j - 1) \notin F}}

Variants == {"a", "b"}

\* sequences without repetition over a set
SeqsOver(S) ==
  UNION {{f \in [1..n -> S] : \A i, j \in 1..n : i # j => f[i] # f[j]} :
           n \in 0..Cardinality(S)}

Distances == {0, 1}

\* the rankings a nearest-neighbour query may produce: every entry of the
\* collection once, by ascending distance
Rankings(st) ==
  {r \in [1..Cardinality(st) -> [entry : st, distance : Distances]] :
     /\ \A i, j \in 1..Len(r) : i # j => r[i].entry # r[j].entry
     /\ \A i \in 1..(Len(r) - 1) : r[i].distance <= r[i + 1].distance}

\* the ranking that lists the entries by chunk_id, at distances 0, 1, 2, ...
RECURSIVE RankByChunkId(_, _)
RankByChunkId(st, d) ==
  IF st = {} THEN <<>>
  ELSE LET e == CHOOSE x \in st : \A y \in st : x.metadata.chunk_id <= y.metadata.chunk_id
       IN <<[entry |-> e, distance |-> d]>> \o RankByChunkId(st \ {e}, d + 1)

\* outcomes of the chat completion call
GenOutcomes == {[ok |-> TRUE, cause |-> "none"], [ok |-> FALSE, cause |-> "timeout"]}

\* context lists handed to generate_answer directly
ContextLists ==
  {[i \in 1..Len(q) |-> [text |-> q[i].text, metadata |-> q[i].metadata, distance |-> 0]] :
     q \in SeqsOver({Batch("a", MaxChunks)[k] : k \in 1..MaxChunks})}

\* ------------------------------------------------------------ engine actions
AdIdle ==
  /\ ad_pc = "idle" /\ ad_chunks = <<>> /\ ad_i = 0
  /\ ids = <<>> /\ documents = <<>> /\ metadatas = <<>> /\ embeddings = <<>>
  /\ failed = {} /\ ad_pre = {} /\ ad_fresh = FALSE

AdReset ==
  /\ ad_pc' = "idle" /\ ad_chunks' = <<>> /\ ad_i' = 0
  /\ ids' = <<>> /\ documents' = <<>> /\ metadatas' = <<>> /\ embeddings' = <<>>
  /\ failed' = {} /\ ad_pre' = {} /\ ad_fresh' = FALSE

EnvUnchanged == UNCHANGED <<zhipu_client, collection, dup_policy>>

\* add_documents(chs) up to its loop
AddBegin(chs) ==
  /\ ad_pc = "idle"
  /\ IF chs = <<>>
     THEN /\ AdReset
          /\ res' = [NoResult EXCEPT !.op = "add_documents"]
     ELSE /\ ad_pc' = "loop"
          /\ ad_chunks' = chs
          /\ ad_i' = 0
          /\ ids' = <<>> /\ documents' = <<>> /\ metadatas' = <<>> /\ embeddings' = <<>>
          /\ failed' = {}
          /\ ad_pre' = store
          /\ ad_fresh' = cleared
          /\ res' = NoResult
  /\ UNCHANGED <<store, cleared>>
  /\ EnvUnchanged

\* AddEmbed with a slip: documents.pop() is missing from the except branch
AddEmbedKeepsDocument ==
  /\ ad_pc = "loop"
  /\ \E service_ok \in BOOLEAN :
       LET chunk == ad_chunks[ad_i + 1]
           e == get_embedding(zhipu_client, service_ok, chunk.text)
       IN IF e.raised
          THEN /\ failed' = failed \cup {ad_i}
               /\ documents' = Append(documents, chunk.text)
               /\ UNCHANGED <<ids, metadatas, embeddings>>
          ELSE /\ ids' = Append(ids, ChunkIdStr(ad_i))
               /\ documents' = Append(documents, chunk.text)
               /\ metadatas' = Append(metadatas, chunk.metadata)
               /\ embeddings' = Append(embeddings, e.value)
               /\ UNCHANGED failed
  /\ ad_i' = ad_i + 1
  /\ ad_pc' = IF ad_i + 1 = Len(ad_chunks) THEN "commit" ELSE "loop"
  /\ UNCHANGED <<ad_chunks, ad_pre, ad_fresh, store, cleared, res>>
  /\ EnvUnchanged

\* AddEmbed with a slip: the id is numbered by the entries kept so far
AddEmbedRenumbers ==
  /\ ad_pc = "loop"
  /\ \E service_ok \in BOOLEAN :
       LET chunk == ad_chunks[ad_i + 1]
           e == get_embedding(zhipu_client, service_ok, chunk.text)
       IN IF e.raised
          THEN /\ failed' = failed \cup {ad_i}
               /\ UNCHANGED <<ids, documents, metadatas, embeddings>>
          ELSE /\ ids' = Append(ids, ChunkIdStr(Len(ids)))
               /\ documents' = Append(documents, chunk.text)
               /\ metadatas' = Append(metadatas, chunk.metadata)
               /\ embeddings' = Append(embeddings, e.value)
               /\ UNCHANGED failed
  /\ ad_i' = ad_i + 1
  /\ ad_pc' = IF ad_i + 1 = Len(ad_chunks) THEN "commit" ELSE "loop"
  /\ UNCHANGED <<ad_chunks, ad_pre, ad_fresh, store, cleared, res>>
  /\ EnvUnchanged

\* AddEmbed that persists every chunk as soon as it is embedded
AddEmbedPersistsEach ==
  /\ ad_pc = "loop"
  /\ \E service_ok \in BOOLEAN :
       LET chunk == ad_chunks[ad_i + 1]
           e == get_embedding(zhipu_client, service_ok, chunk.text)
       IN IF e.raised
          THEN /\ failed' = failed \cup {ad_i}
               /\ UNCHANGED <<ids, documents, metadatas, embeddings, store>>
          ELSE /\ ids' = Append(ids, ChunkIdStr(ad_i))
               /\ documents' = Append(documents, chunk.text)
               /\ metadatas' = Append(metadatas, chunk.metadata)
               /\ embeddings' = Append(embeddings, e.value)
               /\ store' = IF collection
                            THEN store \cup {[id |-> ChunkIdStr(ad_i), document |-> chunk.text,
                                              metadata |-> chunk.metadata, embedding |-> e.value]}
                            ELSE store
               /\ UNCHANGED failed
  /\ ad_i' = ad_i + 1
  /\ ad_pc' = IF ad_i + 1 = Len(ad_chunks) THEN "commit" ELSE "loop"
  /\ UNCHANGED <<ad_chunks, ad_pre, ad_fresh, cleared, res>>
  /\ EnvUnchanged

\* one iteration of the loop of add_documents: the embedding of chunk ad_i
AddEmbed ==
  /\ ad_pc = "loop"
  /\ \E service_ok \in BOOLEAN :
       LET chunk == ad_chunks[ad_i + 1]
           e == get_embedding(zhipu_client, service_ok, chunk.text)
       IN IF e.raised
          THEN /\ failed' = failed \cup {ad_i}
               /\ UNCHANGED <<ids, documents, metadatas, embeddings>>
          ELSE /\ ids' = Append(ids, ChunkIdStr(ad_i))
               /\ documents' = Append(documents, chunk.text)
               /\ metadatas' = Append(metadatas, chunk.metadata)
               /\ embeddings' = Append(embeddings, e.value)
               /\ UNCHANGED failed
  /\ ad_i' = ad_i + 1
  /\ ad_pc' = IF ad_i + 1 = Len(ad_chunks) THEN "commit" ELSE "loop"
  /\ UNCHANGED <<ad_chunks, ad_pre, ad_fresh, store, cleared, res>>
  /\ EnvUnchanged

\* the end of add_documents: the one collection.add call
AddCommit ==
  /\ ad_pc = "commit"
  /\ LET r == IF ids = <<>> THEN [raised |-> FALSE, store |-> store]
              ELSE IF ~collection THEN [raised |-> TRUE, store |-> store]
              ELSE collection_add(store, dup_policy, ids, documents, metadatas, embeddings)
     IN /\ store' = r.store
        /\ res' = [NoResult EXCEPT !.op = "add_documents", !.raised = r.raised,
                                   !.n = Len(ids)]
        /\ cleared' = (cleared /\ r.store = store)
  /\ ad_pc' = "idle"
  /\ UNCHANGED <<ad_chunks, ad_i, ids, documents, metadatas, embeddings,
                 failed, ad_pre, ad_fresh>>
  /\ EnvUnchanged

ClearDatabase ==
  /\ ad_pc = "idle"
  /\ store' = clear_database(collection, store)
  /\ cleared' = collection
  /\ res' = [NoResult EXCEPT !.op = "clear_database"]
  /\ AdReset
  /\ EnvUnchanged

Search(k) ==
  /\ ad_pc = "idle"
  /\ \E service_ok \in BOOLEAN, ranking \in Rankings(store) :
       res' = search(zhipu_client, collection, store, service_ok, ranking, k)
  /\ AdReset
  /\ UNCHANGED <<store, cleared>>
  /\ EnvUnchanged

Ask ==
  /\ ad_pc = "idle"
  /\ \E service_ok \in BOOLEAN, ranking \in Rankings(store), gen \in GenOutcomes :
       res' = ask(zhipu_client, collection, store, service_ok, ranking, gen)
  /\ AdReset
  /\ UNCHANGED <<store, cleared>>
  /\ EnvUnchanged

GenerateAnswer ==
  /\ ad_pc = "idle"
  /\ \E ctx \in ContextLists, gen \in GenOutcomes :
       res' = generate_answer(zhipu_client, ctx, gen)
  /\ AdReset
  /\ UNCHANGED <<store, cleared>>
  /\ EnvUnchanged

\* GetStats with a slip: the collection is recreated when it is looked up
GetStatsRecreates ==
  /\ ad_pc = "idle"
  /\ res' = [NoResult EXCEPT !.op = "get_stats", !.n = get_stats(collection, store)]
  /\ AdReset
  /\ store' = {}
  /\ UNCHANGED cleared
  /\ EnvUnchanged

GetStats ==
  /\ ad_pc = "idle"
  /\ res' = [NoResult EXCEPT !.op = "get_stats", !.n = get_stats(collection, store)]
  /\ AdReset
  /\ UNCHANGED <<store, cleared>>
  /\ EnvUnchanged

\* ------------------------------------------------------------ inputs
\* paragraphs the generated texts are built from: around CHUNK_OVERLAP and
\* CHUNK_SIZE, with and without page markers, blank, with inner whitespace
Paragraphs ==
  { Rep("a", 99),
    Marker(420) \o <<NL>> \o Rep("b", 400),
    Rep("c", 98) \o <<SP>>,
    Rep("d", 500),
    Marker(421),
    <<"e">>,
    <<NL>> \o Rep("f", 97),
    <<"g">> \o Marker(5) \o Marker(6) \o <<"h">>,
    <<>> }

\* what the vision model may recognise on a page (<<>>: nothing, or a failure)
Recognised ==
  { <<>>, <<"x">>, <<SP, "y", NL, NL, NL, NL, "z", SP, SP, "w", NL>>, Rep("q", 450) }

ChapterPages == start_page..(start_page + MaxDocPages - 1)

FileLens == {0} \cup (start_page..(start_page + MaxDocPages))

\* ------------------------------------------------------------ app.py: login and quiz state
\* VALID_CREDENTIALS as the top of the script defines it
DefaultCredentials ==
  [u \in {"10001", "admin", "test"} |->
     IF u = "10001" THEN "123456" ELSE IF u = "admin" THEN "admin123" ELSE "test123"]

verify_login(creds, u, p) == IF u \in DOMAIN creds THEN creds[u] = p ELSE FALSE

\* what the user may type as a name and as a password ("": nothing)
Usernames == {"", "admin", "zhao"}

Passwords == {"", "admin123", "s3cret"}

NoPress == [op |-> "none", username |-> "", password |-> "", ok |-> FALSE]

\* init_session_state, for a session that is logged in as u or not at all
USession(li, u) ==
  /\ VALID_CREDENTIALS = DefaultCredentials
  /\ logged_in = li
  /\ username = u
  /\ current_quiz = 0
  /\ quiz_answered = FALSE
  /\ quiz_results = [correct |-> 0, total |-> 0]
  /\ quiz_result = "none"
  /\ quiz_history = <<>>
  /\ registered = [u2 \in Usernames \ {""} |-> ""]
  /\ ui_last = NoPress
  /\ generated = 0
  /\ adds = [q \in {} |-> 0]

\* nobody at the login page
UFixed == USession(FALSE, "")

\* no search of another engine yet
NoSeen ==
  [valid |-> FALSE, raised |-> FALSE, docs |-> {}, pending |-> 0,
   counted |-> 0, searching |-> FALSE]

\* ------------------------------------------------------------ PDFProcessor actions
\* a processor nobody has used yet, with nothing to read
PFixed ==
  /\ file_len = 0 /\ pclient = FALSE /\ recognised = [p \in ChapterPages |-> <<>>]
  /\ doc = 0 /\ end_page = CHAPTER_10_END_PAGE - 1 /\ chapter_text = <<>>
  /\ text = <<>> /\ chunks = <<>> /\ chunked = <<>> /\ call = "none"

\* no engine
EFixed ==
  /\ zhipu_client = FALSE /\ collection = FALSE /\ store = {} /\ dup_policy = "ignore"
  /\ AdIdle /\ cleared = FALSE /\ res = NoResult

\* no init_db.main run
MFixed ==
  /\ api_key = FALSE /\ chroma_ok = FALSE /\ main_pc = "none"
  /\ main_chunks = <<>> /\ pre_store = {}

\* no rebuild of the app yet
NoRebuild ==
  [valid |-> FALSE, chunks |-> <<>>, failed |-> {}, entries |-> {}, raised |-> FALSE,
   again |-> FALSE, prev_entries |-> {}, prev_raised |-> FALSE]

\* no app session
AFixed ==
  /\ kb_pc = "none" /\ kb_chunks = <<>> /\ kb_last = "none"
  /\ db_initialized = FALSE /\ clears = 0 /\ rebuilt = NoRebuild
  /\ UFixed
  /\ seen = NoSeen

PInit ==
  /\ EFixed
  /\ MFixed
  /\ AFixed
  /\ doc = 0
  /\ end_page = CHAPTER_10_END_PAGE - 1
  /\ chapter_text = <<>>
  /\ chunks = <<>>
  /\ chunked = <<>>
  /\ call = "none"
  /\ \/ /\ \E n \in 0..MaxParas : \E ps \in [1..n -> Paragraphs] : text = Join(ps)
        /\ file_len = 0
        /\ pclient = FALSE
        /\ recognised = [p \in ChapterPages |-> <<>>]
     \/ /\ text = <<>>
        /\ file_len \in FileLens
        /\ pclient \in BOOLEAN
        /\ recognised \in [ChapterPages -> Recognised]

OpenPdf ==
  /\ doc' = open_pdf(file_len)
  /\ UNCHANGED <<file_len, pclient, recognised, end_page, chapter_text,
                 text, chunks, chunked, call>>

\* close(): the document handle is dropped
Close ==
  /\ doc' = 0
  /\ UNCHANGED <<file_len, pclient, recognised, end_page, chapter_text,
                 text, chunks, chunked, call>>

\* get_chapter_pages() called on its own: end_page is cut to the document
GetChapterPages ==
  /\ end_page' = get_chapter_pages(doc, end_page)
  /\ UNCHANGED <<file_len, pclient, recognised, doc, chapter_text,
                 text, chunks, chunked, call>>

ExtractChapterText ==
  LET x == extract_chapter_text(pclient, file_len, recognised, doc, end_page, chapter_text)
  IN /\ doc' = x.doc
     /\ end_page' = x.end_page
     /\ chapter_text' = x.chapter_text
     /\ UNCHANGED <<file_len, pclient, recognised, text, chunks, chunked, call>>

CreateChunks(given) ==
  LET x == create_chunks(given, text, pclient, file_len, recognised,
                         doc, end_page, chapter_text)
  IN /\ doc' = x.doc
     /\ end_page' = x.end_page
     /\ chapter_text' = x.chapter_text
     /\ chunks' = x.ret
     /\ chunked' = x.text
     /\ call' = IF given THEN "text" ELSE "default"
     /\ UNCHANGED <<file_len, pclient, recognised, text>>

CreateChunksDefault == CreateChunks(FALSE)

CreateChunksText == CreateChunks(TRUE)

ProcOpenPdf == OpenPdf /\ UNCHANGED <<evars, mvars, avars, uvars, seen>>

ProcClose == Close /\ UNCHANGED <<evars, mvars, avars, uvars, seen>>

ProcGetChapterPages == GetChapterPages /\ UNCHANGED <<evars, mvars, avars, uvars, seen>>

ProcExtractChapterText == ExtractChapterText /\ UNCHANGED <<evars, mvars, avars, uvars, seen>>

ProcCreateChunksDefault == CreateChunksDefault /\ UNCHANGED <<evars, mvars, avars, uvars, seen>>

ProcCreateChunksText == CreateChunksText /\ UNCHANGED <<evars, mvars, avars, uvars, seen>>

NextChunk ==
  \/ ProcOpenPdf
  \/ ProcClose
  \/ ProcGetChapterPages
  \/ ProcExtractChapterText
  \/ ProcCreateChunksDefault
  \/ ProcCreateChunksText

SpecChunk == PInit /\ [][NextChunk]_vars

\* ------------------------------------------------------------ the engine's interface
\* a constructed RAGEngine over a collection that is empty or holds an
\* earlier batch
EInit ==
  /\ PFixed
  /\ MFixed
  /\ AFixed
  /\ zhipu_client \in BOOLEAN
  /\ collection \in BOOLEAN
  /\ dup_policy \in {"ignore", "raise"}
  /\ store \in {{}, StoreOf(Batch("b", MaxChunks))}
  /\ AdIdle
  /\ cleared = FALSE
  /\ res = NoResult

ApiAddDocuments ==
  /\ \E v \in Variants, n \in 0..MaxChunks : AddBegin(Batch(v, n))
  /\ UNCHANGED <<seen, uvars, pvars, mvars, avars>>

ApiAddEmbed == AddEmbed /\ UNCHANGED <<seen, uvars, pvars, mvars, avars>>

ApiAddCommit == AddCommit /\ UNCHANGED <<seen, uvars, pvars, mvars, avars>>

ApiClearDatabase == ClearDatabase /\ UNCHANGED <<seen, uvars, pvars, mvars, avars>>

ApiSearch == (\E k \in {1, TOP_K} : Search(k)) /\ UNCHANGED <<seen, uvars, pvars, mvars, avars>>

ApiAsk == Ask /\ UNCHANGED <<seen, uvars, pvars, mvars, avars>>

ApiGenerateAnswer == GenerateAnswer /\ UNCHANGED <<seen, uvars, pvars, mvars, avars>>

ApiGetStats == GetStats /\ UNCHANGED <<seen, uvars, pvars, mvars, avars>>

Next ==
  \/ ApiAddDocuments
  \/ ApiAddEmbed
  \/ ApiAddCommit
  \/ ApiClearDatabase
  \/ ApiSearch
  \/ ApiAsk
  \/ ApiGenerateAnswer
  \/ ApiGetStats

Init == EInit

Spec == Init /\ [][Next]_vars

\* ------------------------------------------------------------ init_db.main
MInit ==
  /\ PFixed
  /\ AFixed
  /\ api_key \in BOOLEAN
  /\ chroma_ok \in BOOLEAN
  /\ main_pc = "start"
  /\ main_chunks = <<>>
  /\ store \in {{}, StoreOf(Batch("b", 2))}
  /\ pre_store = store
  /\ zhipu_client = FALSE
  /\ collection = FALSE
  /\ dup_policy \in {"ignore", "raise"}
  /\ AdIdle
  /\ cleared = FALSE
  /\ res = NoResult

\* main up to "engine = RAGEngine()": the key check, and the chunks the
\* processor produced (none: the PDF could not be opened, no text was
\* extracted or create_chunks returned [])
MainPrepare ==
  /\ main_pc = "start"
  /\ \E chs \in {Batch("a", n) : n \in 0..MaxBatch} :
       IF ~api_key \/ chs = <<>>
       THEN main_pc' = "aborted" /\ UNCHANGED main_chunks
       ELSE main_pc' = "engine" /\ main_chunks' = chs
  /\ UNCHANGED <<api_key, chroma_ok, pre_store>>
  /\ UNCHANGED <<seen, uvars, pvars, evars, avars>>

\* engine = RAGEngine(): _init_zhipu and _init_chromadb
MainEngine ==
  /\ main_pc = "engine"
  /\ zhipu_client' \in BOOLEAN
  /\ collection' = chroma_ok
  /\ main_pc' = "clear"
  /\ UNCHANGED <<store, dup_policy, ad_pc, ad_chunks, ad_i, ids, documents, metadatas,
                 embeddings, failed, ad_pre, ad_fresh, cleared, res>>
  /\ UNCHANGED <<api_key, chroma_ok, main_chunks, pre_store>>
  /\ UNCHANGED <<seen, uvars, pvars, avars>>

\* engine.clear_database()
MainClear ==
  /\ main_pc = "clear"
  /\ ClearDatabase
  /\ main_pc' = "add"
  /\ UNCHANGED <<api_key, chroma_ok, main_chunks, pre_store>>
  /\ UNCHANGED <<seen, uvars, pvars, avars>>

\* engine.add_documents(chunks)
MainAdd ==
  /\ main_pc = "add"
  /\ AddBegin(main_chunks)
  /\ main_pc' = "adding"
  /\ UNCHANGED <<api_key, chroma_ok, main_chunks, pre_store>>
  /\ UNCHANGED <<seen, uvars, pvars, avars>>

MainEmbed ==
  /\ main_pc = "adding"
  /\ AddEmbed
  /\ UNCHANGED mvars
  /\ UNCHANGED <<seen, uvars, pvars, avars>>

\* an exception of add_documents ends the run
MainCommit ==
  /\ main_pc = "adding"
  /\ AddCommit
  /\ main_pc' = IF res'.raised THEN "crashed" ELSE "verify"
  /\ UNCHANGED <<api_key, chroma_ok, main_chunks, pre_store>>
  /\ UNCHANGED <<seen, uvars, pvars, avars>>

\* get_stats() and the test question
MainVerify ==
  /\ main_pc = "verify"
  /\ \E service_ok \in BOOLEAN, gen \in GenOutcomes :
       res' = ask(zhipu_client, collection, store, service_ok,
                  RankByChunkId(store, 0), gen)
  /\ main_pc' = IF res'.raised THEN "crashed" ELSE "done"
  /\ UNCHANGED <<zhipu_client, collection, store, dup_policy, ad_pc, ad_chunks, ad_i,
                 ids, documents, metadatas, embeddings, failed, ad_pre, ad_fresh, cleared>>
  /\ UNCHANGED <<api_key, chroma_ok, main_chunks, pre_store>>
  /\ UNCHANGED <<seen, uvars, pvars, avars>>

\* ------------------------------------------------------------ app.py
\* what the collection holds as (id, text, metadata); nothing without a
\* collection
Persisted(coll, st) ==
  IF coll
  THEN {[id |-> e.id, document |-> e.document, metadata |-> e.metadata] : e \in st}
  ELSE {}

\* initialize_system: the engine of the session, and db_initialized from
\* get_stats.  When the construction of a ZhipuAI client raises, the engine
\* catches it (zhipu_client None) and QuizGenerator() does not: the except
\* of initialize_system leaves db_initialized as init_session_state set it.
KInit ==
  /\ PFixed
  /\ MFixed
  /\ zhipu_client \in BOOLEAN
  /\ collection \in BOOLEAN
  /\ dup_policy \in {"ignore", "raise"}
  /\ store \in {{}, StoreOf(Batch("b", MaxChunks))}
  /\ AdIdle
  /\ cleared = FALSE
  /\ res = NoResult
  /\ kb_pc = "idle"
  /\ kb_chunks = <<>>
  /\ kb_last = "none"
  /\ \E built \in BOOLEAN :
       /\ built \/ ~zhipu_client
       /\ db_initialized = (built /\ get_stats(collection, store) > 0)
  /\ clears = 0
  /\ rebuilt = NoRebuild
  /\ USession(TRUE, "admin")
  /\ seen = NoSeen

\* KbPrepare with a slip: no "if not chunks" test
KbPrepareWithoutTest ==
  /\ kb_pc = "idle"
  /\ \E v \in Variants, n \in 0..MaxChunks :
       /\ kb_pc' = "clear"
       /\ kb_chunks' = Batch(v, n)
       /\ kb_last' = "none"
  /\ UNCHANGED <<db_initialized, clears, rebuilt>>
  /\ UNCHANGED <<seen, uvars, pvars, evars, mvars>>

\* init_knowledge_base up to "if not chunks": without chunks (the PDF could
\* not be opened, no text, or create_chunks returned []) it returns
KbPrepare ==
  /\ kb_pc = "idle"
  /\ \E v \in Variants, n \in 0..MaxChunks :
       IF n = 0
       THEN /\ kb_last' = "no_chunks"
            /\ UNCHANGED <<kb_pc, kb_chunks>>
       ELSE /\ kb_pc' = "clear"
            /\ kb_chunks' = Batch(v, n)
            /\ kb_last' = "none"
  /\ UNCHANGED <<db_initialized, clears, rebuilt>>
  /\ UNCHANGED <<seen, uvars, pvars, evars, mvars>>

\* st.session_state.rag_engine.clear_database()
KbClear ==
  /\ kb_pc = "clear"
  /\ ClearDatabase
  /\ kb_pc' = "add"
  /\ clears' = clears + 1
  /\ UNCHANGED <<kb_chunks, kb_last, db_initialized, rebuilt>>
  /\ UNCHANGED <<seen, uvars, pvars, mvars>>

\* st.session_state.rag_engine.add_documents(chunks)
KbAdd ==
  /\ kb_pc = "add"
  /\ AddBegin(kb_chunks)
  /\ kb_pc' = "adding"
  /\ UNCHANGED <<kb_chunks, kb_last, db_initialized, clears, rebuilt>>
  /\ UNCHANGED <<seen, uvars, pvars, mvars>>

KbEmbed ==
  /\ kb_pc = "adding"
  /\ AddEmbed
  /\ UNCHANGED avars
  /\ UNCHANGED <<seen, uvars, pvars, mvars>>

\* the end of add_documents; an exception is caught by init_knowledge_base,
\* otherwise db_initialized is set
KbCommit ==
  /\ kb_pc = "adding"
  /\ AddCommit
  /\ kb_pc' = "idle"
  /\ kb_last' = IF res'.raised THEN "error" ELSE "done"
  /\ db_initialized' = IF res'.raised THEN db_initialized ELSE TRUE
  /\ clears' = 0
  /\ rebuilt' =
       LET again == /\ rebuilt.valid
                    /\ rebuilt.chunks = kb_chunks
                    /\ rebuilt.failed = failed
       IN [valid |-> TRUE, chunks |-> kb_chunks, failed |-> failed,
           entries |-> Persisted(collection, store'), raised |-> res'.raised,
           again |-> again,
           prev_entries |-> IF again THEN rebuilt.entries ELSE {},
           prev_raised |-> IF again THEN rebuilt.raised ELSE FALSE]
  /\ UNCHANGED kb_chunks
  /\ UNCHANGED <<seen, uvars, pvars, mvars>>

\* the clear button of the sidebar
KbClearButton ==
  /\ kb_pc = "idle"
  /\ clears < MaxClears
  /\ ClearDatabase
  /\ db_initialized' = FALSE
  /\ clears' = clears + 1
  /\ UNCHANGED <<kb_pc, kb_chunks, kb_last, rebuilt>>
  /\ UNCHANGED <<seen, uvars, pvars, mvars>>

\* ------------------------------------------------------------ rebuilds
\* a rebuild of the knowledge base: one init_db.main run, or the
\* knowledge base page of an app session
NextInitDb ==
  \/ MainPrepare
  \/ MainEngine
  \/ MainClear
  \/ MainAdd
  \/ MainEmbed
  \/ MainCommit
  \/ MainVerify
  \/ KbPrepare
  \/ KbClear
  \/ KbAdd
  \/ KbEmbed
  \/ KbCommit
  \/ KbClearButton

InitDb == MInit \/ KInit

SpecInitDb == InitDb /\ [][NextInitDb]_vars

\* ------------------------------------------------------------ a search during init_db.main
\* main up to "engine = RAGEngine()", for the short chunk lists of the runs
\* that are searched meanwhile
RebuildPrepare ==
  /\ main_pc = "start"
  /\ \E chs \in {Batch("a", n) : n \in 0..MaxRebuild} :
       IF ~api_key \/ chs = <<>>
       THEN main_pc' = "aborted" /\ UNCHANGED main_chunks
       ELSE main_pc' = "engine" /\ main_chunks' = chs
  /\ UNCHANGED <<api_key, chroma_ok, pre_store>>
  /\ UNCHANGED <<seen, uvars, pvars, evars, avars>>

\* search(query, top_k) of another engine (a session of the app) on the
\* persisted collection while init_db.main runs; top_k covers the whole
\* collection.  The search reads the collection twice, count() and, after
\* its embedding request, query(), and the run may go on in between.  Its
\* handle of the collection is lost (gone) when the read falls between
\* delete_collection and create_collection of clear_database, which reads
\* nothing and so is the same as a read just before the clear, and,
\* depending on the chromadb release, from the clear on.
HandleLost(gone) ==
  /\ gone
  /\ collection
  /\ main_pc \in {"clear", "add", "adding", "verify", "done", "crashed"}

Pending == IF ad_pc \in {"loop", "commit"} THEN Len(ids) ELSE 0

\* "if self.collection.count() == 0: return []", outside the try
ConcurrentSearchCount ==
  /\ main_pc # "none"
  /\ ~seen.searching
  /\ \E gone \in BOOLEAN :
       IF HandleLost(gone)
       THEN seen' = [NoSeen EXCEPT !.valid = TRUE, !.raised = TRUE, !.pending = Pending]
       ELSE IF count(store) = 0
       THEN seen' = [NoSeen EXCEPT !.valid = TRUE, !.pending = Pending]
       ELSE seen' = [NoSeen EXCEPT !.counted = count(store), !.searching = TRUE]
  /\ UNCHANGED <<pvars, evars, mvars, avars, uvars>>

\* the try of search: get_embedding, collection.query and the result list;
\* any exception gives []
ConcurrentSearchQuery ==
  /\ seen.searching
  /\ \E client \in BOOLEAN, service_ok \in BOOLEAN, gone \in BOOLEAN :
       LET docs == IF get_embedding(client, service_ok, <<"q">>).raised \/ HandleLost(gone)
                   THEN <<>>
                   ELSE QueryDocs(RankByChunkId(store, 0), MaxBatch)
       IN seen' = [valid |-> TRUE,
                   raised |-> FALSE,
                   docs |-> {[text |-> docs[i].text, metadata |-> docs[i].metadata] :
                               i \in 1..Len(docs)},
                   pending |-> Pending,
                   counted |-> seen.counted,
                   searching |-> FALSE]
  /\ UNCHANGED <<pvars, evars, mvars, avars, uvars>>

NextConcurrent ==
  \/ RebuildPrepare
  \/ MainEngine
  \/ MainClear
  \/ MainAdd
  \/ MainEmbed
  \/ MainCommit
  \/ MainVerify
  \/ ConcurrentSearchCount
  \/ ConcurrentSearchQuery

SpecConcurrent == MInit /\ [][NextConcurrent]_vars

\* ------------------------------------------------------------ app.py: the login and quiz pages
\* Every press of a button is one run of the script from its top, which
\* defines VALID_CREDENTIALS anew before main() handles the press.
\* The quiz fields a press on another page leaves alone
QuizUnchanged ==
  UNCHANGED <<current_quiz, quiz_answered, quiz_results, quiz_result, quiz_history,
              generated, adds>>

\* the login button of the login tab
Login ==
  /\ ~logged_in
  /\ \E u \in Usernames, p \in Passwords :
       LET creds == DefaultCredentials
           ok == u # "" /\ p # "" /\ verify_login(creds, u, p)
       IN /\ VALID_CREDENTIALS' = creds
          /\ logged_in' = ok
          /\ username' = IF ok THEN u ELSE username
          /\ ui_last' = [op |-> "login", username |-> u, password |-> p, ok |-> ok]
  /\ UNCHANGED registered
  /\ QuizUnchanged
  /\ UNCHANGED <<pvars, evars, mvars, avars, seen>>

\* the register button of the registration tab
Register ==
  /\ ~logged_in
  /\ \E u \in Usernames, p \in Passwords, confirm \in Passwords, agree \in BOOLEAN :
       LET creds == DefaultCredentials
           ok == u # "" /\ p # "" /\ agree /\ p = confirm
       IN /\ VALID_CREDENTIALS' =
               IF ok THEN [x \in DOMAIN creds \cup {u} |-> IF x = u THEN p ELSE creds[x]]
               ELSE creds
          /\ registered' = IF ok THEN [registered EXCEPT ![u] = p] ELSE registered
          /\ ui_last' = [op |-> "register", username |-> u, password |-> p, ok |-> ok]
  /\ UNCHANGED <<logged_in, username>>
  /\ QuizUnchanged
  /\ UNCHANGED <<pvars, evars, mvars, avars, seen>>

\* the logout button of the sidebar
Logout ==
  /\ logged_in
  /\ VALID_CREDENTIALS' = DefaultCredentials
  /\ logged_in' = FALSE
  /\ username' = ""
  /\ UNCHANGED <<registered, ui_last>>
  /\ QuizUnchanged
  /\ UNCHANGED <<pvars, evars, mvars, avars, seen>>

\* the generate button of the quiz page; ok: generate_quiz returned a quiz,
\* not a dict with "error"
QuizGenerate ==
  /\ logged_in
  /\ generated < MaxQuizzes
  /\ \E ok \in BOOLEAN :
       IF ok
       THEN /\ generated' = generated + 1
            /\ current_quiz' = generated + 1
            /\ quiz_answered' = FALSE
            /\ adds' = [q \in 1..(generated + 1) |-> IF q <= generated THEN adds[q] ELSE 0]
       ELSE UNCHANGED <<generated, current_quiz, quiz_answered, adds>>
  /\ VALID_CREDENTIALS' = DefaultCredentials
  /\ UNCHANGED <<quiz_results, quiz_result, quiz_history>>
  /\ UNCHANGED <<logged_in, username, registered, ui_last>>
  /\ UNCHANGED <<pvars, evars, mvars, avars, seen>>

\* the next button that forgets the answer and keeps the quiz
QuizNextKeepsQuiz ==
  /\ logged_in
  /\ current_quiz # 0
  /\ quiz_answered
  /\ quiz_answered' = FALSE
  /\ VALID_CREDENTIALS' = DefaultCredentials
  /\ UNCHANGED <<current_quiz, quiz_results, quiz_result, quiz_history, generated, adds>>
  /\ UNCHANGED <<logged_in, username, registered, ui_last>>
  /\ UNCHANGED <<pvars, evars, mvars, avars, seen>>

\* the submit button, shown while the quiz is not answered; check_answer
\* says correct or wrong, or raises
QuizSubmit ==
  /\ logged_in
  /\ current_quiz # 0
  /\ ~quiz_answered
  /\ \E answer \in BOOLEAN, outcome \in {"correct", "wrong", "raised"} :
       IF answer /\ outcome # "raised"
       THEN /\ quiz_result' = outcome
            /\ quiz_answered' = TRUE
            /\ quiz_results' =
                 [total |-> quiz_results.total + 1,
                  correct |-> quiz_results.correct + (IF outcome = "correct" THEN 1 ELSE 0)]
            /\ quiz_history' = Append(quiz_history, outcome = "correct")
            /\ adds' = [adds EXCEPT ![current_quiz] = @ + 1]
       ELSE UNCHANGED <<quiz_result, quiz_answered, quiz_results, quiz_history, adds>>
  /\ VALID_CREDENTIALS' = DefaultCredentials
  /\ UNCHANGED <<current_quiz, generated>>
  /\ UNCHANGED <<logged_in, username, registered, ui_last>>
  /\ UNCHANGED <<pvars, evars, mvars, avars, seen>>

\* the next button, shown once the quiz is answered
QuizNext ==
  /\ logged_in
  /\ current_quiz # 0
  /\ quiz_answered
  /\ current_quiz' = 0
  /\ quiz_answered' = FALSE
  /\ VALID_CREDENTIALS' = DefaultCredentials
  /\ UNCHANGED <<quiz_results, quiz_result, quiz_history, generated, adds>>
  /\ UNCHANGED <<logged_in, username, registered, ui_last>>
  /\ UNCHANGED <<pvars, evars, mvars, avars, seen>>

\* a run of the script without a button pressed (a widget changed): only
\* the top of the script has an effect
Rerun ==
  /\ VALID_CREDENTIALS' = DefaultCredentials
  /\ UNCHANGED <<logged_in, username, registered, ui_last>>
  /\ QuizUnchanged
  /\ UNCHANGED <<pvars, evars, mvars, avars, seen>>

\* the button of the history page that empties the histories
ClearHistory ==
  /\ logged_in
  /\ quiz_history' = <<>>
  /\ VALID_CREDENTIALS' = DefaultCredentials
  /\ UNCHANGED <<current_quiz, quiz_answered, quiz_results, quiz_result, generated, adds>>
  /\ UNCHANGED <<logged_in, username, registered, ui_last>>
  /\ UNCHANGED <<pvars, evars, mvars, avars, seen>>

\* a browser session of the app: the login page, then the quiz and the
\* history page
SessionInit == PFixed /\ EFixed /\ MFixed /\ AFixed

NextSession ==
  \/ Login
  \/ Register
  \/ Logout
  \/ QuizGenerate
  \/ QuizSubmit
  \/ QuizNext
  \/ ClearHistory
  \/ Rerun

SpecSession == SessionInit /\ [][NextSession]_vars

\* ------------------------------------------------------------ helpers of the properties
NoWs(s) == SelectSeq(s, LAMBDA c : c \notin Whitespace)

RECURSIVE Flatten(_)
Flatten(ss) == IF ss = <<>> THEN <<>> ELSE Head(ss) \o Flatten(Tail(ss))

IsPrefix(p, s) == Len(p) <= Len(s) /\ SubSeq(s, 1, Len(p)) = p

IsSuffix(p, s) == Len(p) <= Len(s) /\ SubSeq(s, Len(s) - Len(p) + 1, Len(s)) = p

\* the page of the last marker in s, dflt when s holds none
RECURSIVE LastPage(_, _)
LastPage(s, dflt) ==
  LET i == MarkerStart(s)
  IN IF i = 0 THEN dflt
     ELSE LastPage(Tail2(s, MarkerEnd(s, i) + 1), MarkerPage(s, i))

\* the loop history of the create_chunks call whose result is in chunks
Run == IF chunked = <<>> THEN LoopInit ELSE ChunkRun(chunked)

\* ------------------------------------------------------------ C1
\* C1 (chunk coverage): after create_chunks, every chunk but the first starts
\* (whitespace aside) with the overlap its buffer was seeded with, which is a
\* tail of its predecessor; with these overlaps removed the chunks, in order,
\* are exactly the paragraphs of the split text with the page markers
\* removed, whitespace aside: nothing lost, nothing twice.
C1_ChunkCoverage ==
  call # "none" =>
    LET ov(i) == NoWs(Run.overlaps[i])
        core(i) == Tail2(NoWs(chunks[i].text), Len(ov(i)) + 1)
        paras == split(chunked)
    IN /\ Len(Run.overlaps) = Len(chunks)
       /\ \A i \in 1..Len(chunks) :
            /\ IsPrefix(ov(i), NoWs(chunks[i].text))
            /\ (i = 1) => (ov(i) = <<>>)
            /\ (i > 1) => IsSuffix(ov(i), NoWs(chunks[i - 1].text))
       /\ Flatten([i \in 1..Len(chunks) |-> core(i)])
            = Flatten([k \in 1..Len(paras) |-> NoWs(RemoveMarkers(paras[k]))])

\* three chunks, the second with an injected overlap, from a text with markers
C1_Witness ==
  /\ call = "text"
  /\ Len(chunks) >= 3
  /\ Run.overlaps[2] # <<>>
  /\ MarkerStart(chunked) # 0

\* ------------------------------------------------------------ C2
\* C2 as claimed (overlap bound): whenever a chunk's text is longer than
\* CHUNK_OVERLAP, the next chunk's text starts with its last CHUNK_OVERLAP
\* characters.
C2_OverlapOfTexts ==
  call # "none" =>
    \A i \in 1..(Len(chunks) - 1) :
      Len(chunks[i].text) > CHUNK_OVERLAP =>
        Prefix(chunks[i + 1].text, CHUNK_OVERLAP) = Suffix(chunks[i].text, CHUNK_OVERLAP)

\* C2 as amended: the overlap is cut from the accumulation buffer, not from
\* the chunk text.  For adjacent chunks whose predecessor's buffer (its text
\* before strip()) is longer than CHUNK_OVERLAP, the successor's buffer starts
\* with the last CHUNK_OVERLAP characters of that buffer; these end with the
\* paragraph separator, so the successor's text repeats at most
\* CHUNK_OVERLAP - 2 characters of the predecessor's text.  A buffer no longer
\* than CHUNK_OVERLAP seeds nothing.
C2_OverlapOfBuffers ==
  call # "none" =>
    /\ Len(Run.buffers) = Len(chunks)
    /\ \A i \in 1..Len(chunks) : chunks[i].text = strip(Run.buffers[i])
    /\ \A i \in 1..(Len(chunks) - 1) :
         LET b == Run.buffers[i]
             nb == Run.buffers[i + 1]
             o == Suffix(b, CHUNK_OVERLAP)
         IN IF Len(b) > CHUNK_OVERLAP
            THEN /\ Prefix(nb, CHUNK_OVERLAP) = o
                 /\ Suffix(o, 2) = <<NL, NL>>
                 /\ Run.overlaps[i + 1] = o
                 /\ IsPrefix(NoWs(o), NoWs(chunks[i + 1].text))
                 /\ IsSuffix(NoWs(o), NoWs(chunks[i].text))
                 /\ Len(NoWs(o)) <= CHUNK_OVERLAP - 2
            ELSE Run.overlaps[i + 1] = <<>>

\* a chunk text longer than CHUNK_OVERLAP followed by another chunk
C2_Witness ==
  /\ call = "text"
  /\ \E i \in 1..(Len(chunks) - 1) :
       /\ Len(chunks[i].text) > CHUNK_OVERLAP
       /\ Len(Run.buffers[i]) > CHUNK_OVERLAP

\* ------------------------------------------------------------ C3
\* C3 as claimed (chunk page tag): the page of every chunk is the page of the
\* last marker in the text up to the end of the chunk's own last paragraph,
\* the start page when there is none.
C3_PageOfOwnParagraphs ==
  call # "none" =>
    LET paras == split(chunked)
    IN \A i \in 1..Len(chunks) :
         chunks[i].metadata.page
           = LastPage(Join(SubSeq(paras, 1, Run.lasts[i])), start_page + 1)

\* ------------------------------------------------------------ C4
\* C4 (partial-failure ingestion): when add_documents has run on a freshly
\* cleared collection with n chunks of which the embedding failed for the
\* index set F, it returned normally, the collection holds exactly the
\* entries of the n - |F| chunks outside F, each under the id of its own
\* index, and count() has grown by n - |F|.
C4_PartialFailure ==
  (ad_pc = "idle" /\ ad_chunks # <<>> /\ ad_fresh) =>
    /\ res.op \in {"add_documents", "ask"}
    /\ (res.op = "add_documents") => ~res.raised
    /\ store = Survivors(ad_chunks, failed)
    /\ count(store) = count(ad_pre) + Len(ad_chunks) - Cardinality(failed)
    /\ \A e \in store : \E k \in 1..Len(ad_chunks) :
         /\ (k - 1) \notin failed
         /\ e.id = ChunkIdStr(k - 1)
         /\ e.document = ad_chunks[k].text
         /\ e.metadata = ad_chunks[k].metadata

\* ten chunks, the embeddings of chunks 3 and 7 failed, eight entries
C4_Witness ==
  /\ ad_pc = "idle"
  /\ res.op = "add_documents"
  /\ ad_fresh
  /\ Len(ad_chunks) = 10
  /\ failed = {3, 7}
  /\ count(ad_pre) = 0
  /\ count(store) = 8

\* ------------------------------------------------------------ C5
\* C5 as claimed (rebuild atomicity): when a run of init_db.main has ended,
\* the collection holds what it held before the run, or the batch the run
\* loaded.
C5_RebuildAtomic ==
  main_pc \in {"aborted", "crashed", "done"} =>
    \/ store = pre_store
    \/ /\ store # {}
       /\ store = Survivors(main_chunks, failed)

\* ------------------------------------------------------------ C6
\* C6 as claimed (no raw exception escapes): ask and add_documents never end
\* with an exception.
C6_NoException ==
  res.op \in {"ask", "add_documents"} => ~res.raised

\* ------------------------------------------------------------ C7
\* C7 (empty-store fallback): on a freshly cleared collection search returns
\* the empty list without raising, and ask returns the fixed no-knowledge
\* answer with no sources and without a call of the generation service.
C7_EmptyStoreFallback ==
  cleared =>
    /\ store = {}
    /\ (res.op = "search") => (~res.raised /\ res.docs = <<>>)
    /\ (res.op = "ask") =>
         /\ ~res.raised
         /\ res.kind = "no_knowledge"
         /\ res.sources = <<>>
         /\ ~res.called
         /\ res.service = "none"

\* ask on a freshly cleared collection of an engine with a client
C7_Witness ==
  /\ cleared
  /\ zhipu_client
  /\ res.op = "ask"

\* ------------------------------------------------------------ C8
\* C8 as claimed (citations are always derivable): generate_answer returns
\* one citation per context chunk, whatever the state of the client.
C8_OneCitationPerChunk ==
  res.op = "generate_answer" => Len(res.sources) = Len(res.context)

\* C8 as amended: with a configured client generate_answer returns one
\* citation per context chunk whether the generation call succeeds or
\* fails; without a client it returns the client-not-initialised answer
\* with no sources and does not call the service.
C8_CitationsWithClient ==
  res.op = "generate_answer" =>
    IF zhipu_client
    THEN /\ Len(res.sources) = Len(res.context)
         /\ res.kind \in {"generated", "generation_failed"}
         /\ res.called
    ELSE /\ res.sources = <<>>
         /\ res.kind = "no_client"
         /\ ~res.called

\* a failed generation call over two or more context chunks, and citations
C8_Witness ==
  /\ res.op = "generate_answer"
  /\ zhipu_client
  /\ res.service = "failed"
  /\ Len(res.context) >= 2
  /\ Len(res.sources) >= 2

\* ------------------------------------------------------------ C9
\* C9 (generation failure is recovered): when the generation call raised,
\* generate_answer (directly or inside ask) returned normally with the
\* failure answer that embeds the cause and with the citation of every
\* context chunk.
C9_GenerationFailure ==
  (res.op \in {"generate_answer", "ask"} /\ res.service = "failed") =>
    /\ ~res.raised
    /\ res.kind = "generation_failed"
    /\ res.cause = "timeout"
    /\ Len(res.sources) = Len(res.context)
    /\ \A i \in 1..Len(res.context) :
         /\ res.sources[i].pdf_page = res.context[i].metadata.page
         /\ res.sources[i].preview
              = Prefix(res.context[i].text, 100) \o <<".", ".", ".">>

\* the generation call failed inside ask, over retrieved chunks
C9_Witness ==
  /\ res.op = "ask"
  /\ res.service = "failed"
  /\ res.context # <<>>

\* ------------------------------------------------------------ C10
\* the citation of context chunk i, block i of the prompt
Describes(r, i) ==
  /\ r.sources[i].pdf_page = r.context[i].metadata.page
  /\ r.sources[i].book_page = r.context[i].metadata.page - 16
  /\ r.sources[i].preview = Prefix(r.context[i].text, 100) \o <<".", ".", ".">>
  /\ r.called =>
       /\ r.prompt[i].number = i
       /\ r.prompt[i].text = r.context[i].text
       /\ r.prompt[i].pdf_page = r.context[i].metadata.page
       /\ r.prompt[i].book_page = r.context[i].metadata.page - 16

\* C10 as claimed (citation mapping): the sources of generate_answer are the
\* context chunks one by one, in their order, with the page translated by
\* 16.
C10_CitationMapping ==
  res.op = "generate_answer" =>
    /\ Len(res.sources) = Len(res.context)
    /\ \A i \in 1..Len(res.context) : Describes(res, i)

\* C10 as amended: the same, for an engine with a configured client.
C10_CitationMappingWithClient ==
  (res.op = "generate_answer" /\ zhipu_client) =>
    /\ Len(res.sources) = Len(res.context)
    /\ Len(res.prompt) = Len(res.context)
    /\ \A i \in 1..Len(res.context) : Describes(res, i)

\* native page 420 cited as 404, in a context that is not in page order
C10_Witness ==
  /\ res.op = "generate_answer"
  /\ zhipu_client
  /\ res.service = "ok"
  /\ \E i \in 1..Len(res.sources) :
       res.sources[i].pdf_page = 420 /\ res.sources[i].book_page = 404
  /\ \E i \in 1..(Len(res.context) - 1) :
       res.context[i].metadata.page > res.context[i + 1].metadata.page

\* ------------------------------------------------------------ C11
\* C11 as claimed (two terminal outcomes): every ask call ends in the
\* no-knowledge fallback (fixed answer, no sources, no generation call) when
\* retrieval returned nothing, and otherwise in the answer of generate_answer
\* over the retrieved chunks with one source per chunk and one generation
\* call.
C11_TwoOutcomes ==
  res.op = "ask" =>
    /\ ~res.raised
    /\ \/ /\ res.kind = "no_knowledge"
          /\ res.context = <<>>
          /\ res.sources = <<>>
          /\ ~res.called
       \/ /\ res.kind \in {"generated", "generation_failed"}
          /\ res.context # <<>>
          /\ Len(res.sources) = Len(res.context)
          /\ res.called

\* ------------------------------------------------------------ C12
\* C12 (rebuild idempotence): after one or more clear_database calls in a
\* row the document count is 0, and a rebuild (clear_database, then
\* add_documents) repeated with the same chunks and the same embedding
\* failures leaves the same (id, text, metadata) entries as the rebuild
\* before it.
C12_RebuildIdempotent ==
  /\ clears > 0 =>
       /\ get_stats(collection, store) = 0
       /\ collection => count(store) = 0
  /\ rebuilt.again =>
       /\ rebuilt.entries = rebuilt.prev_entries
       /\ rebuilt.raised = rebuilt.prev_raised

\* the same partly failing rebuild twice over, then two clears in a row
C12_Witness ==
  /\ clears = 2
  /\ collection
  /\ rebuilt.again
  /\ rebuilt.failed # {}
  /\ rebuilt.entries # {}
  /\ rebuilt.entries = rebuilt.prev_entries

\* ------------------------------------------------------------ C13
\* C13 as claimed (appending batches): after every add_documents call on a
\* collection, count() is the count before the call plus the number of
\* chunks of the call whose embedding succeeded, and no two entries of the
\* collection share an id.
C13_AppendGrowsCount ==
  (collection /\ ad_pc = "idle" /\ res.op = "add_documents" /\ ad_chunks # <<>>) =>
    /\ count(store) = count(ad_pre) + Len(ad_chunks) - Cardinality(failed)
    /\ \A e1, e2 \in store : e1.id = e2.id => e1 = e2

\* ------------------------------------------------------------ C14
\* the indices below n that are not in F, ascending
RECURSIVE Kept(_, _)
Kept(n, F) ==
  IF n = 0 THEN <<>>
  ELSE IF (n - 1) \in F THEN Kept(n - 1, F) ELSE Append(Kept(n - 1, F), n - 1)

\* C14 (ingestion order): add_documents attempts chunk ad_i and then
\* chunk ad_i + 1, each once; at every point of the loop the lists it will
\* hand to collection.add hold the chunks attempted so far whose embedding
\* succeeded, in chunk order, each with the id of its own index, its own
\* text, metadata and embedding.
C14_IngestionOrder ==
  /\ [](ad_chunks # <<>> =>
          LET kept == Kept(ad_i, failed)
          IN /\ ad_i <= Len(ad_chunks)
             /\ failed \subseteq 0..(ad_i - 1)
             /\ ids = [k \in 1..Len(kept) |-> ChunkIdStr(kept[k])]
             /\ documents = [k \in 1..Len(kept) |-> ad_chunks[kept[k] + 1].text]
             /\ metadatas = [k \in 1..Len(kept) |-> ad_chunks[kept[k] + 1].metadata]
             /\ embeddings = [k \in 1..Len(kept) |-> Embedding(ad_chunks[kept[k] + 1].text)]
             /\ (ad_pc \in {"commit", "idle"}) => ad_i = Len(ad_chunks))
  /\ [][(ad_pc = "loop" /\ <<ad_i, ids, failed>>' # <<ad_i, ids, failed>>) =>
          /\ ad_i' = ad_i + 1
          /\ \/ failed' = failed \cup {ad_i} /\ ids' = ids
             \/ failed' = failed /\ ids' = Append(ids, ChunkIdStr(ad_i))]_vars

\* ten chunks attempted, the first and the fifth failed, eight kept
C14_Witness ==
  /\ ad_pc = "commit"
  /\ Len(ad_chunks) = 10
  /\ failed = {0, 4}
  /\ Len(ids) = 8
  /\ ids[1] = ChunkIdStr(1)
  /\ ids[8] = ChunkIdStr(9)

\* ------------------------------------------------------------ C15
\* C15 as claimed (empty input to the chunker): create_chunks called with
\* an empty or whitespace-only text returns no chunk.
C15_EmptyTextNoChunks ==
  (call = "text" /\ strip(text) = <<>>) => chunks = <<>>

\* ------------------------------------------------------------ C16
\* C16 (nothing-to-index rebuild): a rebuild goes on to clear_database and
\* add_documents only with chunks.  Without chunks init_db.main returns
\* before it constructs the engine, and init_knowledge_base returns before
\* clear_database: the step that ends the run leaves the collection, the
\* engine and db_initialized as they were, and an init_db.main run that
\* ended this way has called nothing on the collection.
C16_NothingToIndex ==
  /\ [](/\ (kb_pc \in {"clear", "add", "adding"}) => kb_chunks # <<>>
        /\ (main_pc \in {"engine", "clear", "add", "adding", "verify", "done", "crashed"})
             => main_chunks # <<>>
        /\ (main_pc = "aborted") =>
             (store = pre_store /\ res = NoResult /\ ~cleared /\ ad_pc = "idle"))
  /\ [][((kb_last' = "no_chunks" /\ kb_last # "no_chunks")
           \/ (main_pc' = "aborted" /\ main_pc # "aborted")) =>
          /\ UNCHANGED <<evars, db_initialized, clears, rebuilt>>
          /\ kb_pc' = kb_pc]_vars

\* after a rebuild that stored entries, a run of init_knowledge_base without
\* chunks: the entries are still there
C16_Witness ==
  /\ kb_pc = "idle"
  /\ kb_last = "no_chunks"
  /\ rebuilt.valid
  /\ db_initialized
  /\ Persisted(collection, store) = rebuilt.entries
  /\ store # {}

\* ------------------------------------------------------------ C17
\* paragraph k of the split text as the loop appends it
CleanPara(paras, k) ==
  IF MarkerStart(paras[k]) # 0 THEN RemoveMarkers(paras[k]) ELSE paras[k]

\* the non-blank paragraphs lo..hi, each followed by the separator
RECURSIVE Body(_, _, _)
Body(paras, lo, hi) ==
  IF lo > hi THEN <<>>
  ELSE (IF strip(CleanPara(paras, lo)) = <<>> THEN <<>>
        ELSE CleanPara(paras, lo) \o <<NL, NL>>) \o Body(paras, lo + 1, hi)

\* the indices of the non-blank paragraphs among lo..hi
NonBlank(paras, lo, hi) ==
  {k \in lo..hi : strip(CleanPara(paras, k)) # <<>>}

\* the first paragraph a chunk may hold: the one after its predecessor's last
FirstOf(i) == IF i = 1 THEN 1 ELSE Run.lasts[i - 1] + 1

\* C17 (paragraph atomicity): every chunk is, up to the strip() of its ends,
\* its injected overlap followed by whole consecutive paragraphs, every
\* non-blank paragraph is in exactly one chunk, and a paragraph of
\* CHUNK_SIZE or more is alone in its chunk behind the overlap.
C17_ParagraphAtomicity ==
  call # "none" =>
    LET paras == split(chunked)
    IN /\ Len(Run.lasts) = Len(chunks)
       /\ \A i \in 1..Len(chunks) :
            /\ FirstOf(i) <= Run.lasts[i]
            /\ Run.lasts[i] <= Len(paras)
            /\ chunks[i].text
                 = strip(Run.overlaps[i] \o Body(paras, FirstOf(i), Run.lasts[i]))
            /\ \A k \in NonBlank(paras, FirstOf(i), Run.lasts[i]) :
                 Len(CleanPara(paras, k)) >= CHUNK_SIZE =>
                   NonBlank(paras, FirstOf(i), Run.lasts[i]) = {k}
       /\ chunked # <<>> =>
            NonBlank(paras, 1, Len(paras))
              = UNION {NonBlank(paras, FirstOf(i), Run.lasts[i]) : i \in 1..Len(chunks)}

\* a paragraph of CHUNK_SIZE characters between two short ones
C17_Witness ==
  /\ call = "text"
  /\ Len(chunks) = 3
  /\ Len(chunks[2].text) > CHUNK_SIZE
  /\ Run.overlaps[2] # <<>>
  /\ \E k \in 1..Len(split(chunked)) : Len(split(chunked)[k]) >= CHUNK_SIZE

\* ------------------------------------------------------------ C18
\* chunk i holds a paragraph of CHUNK_SIZE or more
HoldsLongParagraph(i) ==
  \E k \in NonBlank(split(chunked), FirstOf(i), Run.lasts[i]) :
    Len(CleanPara(split(chunked), k)) >= CHUNK_SIZE

\* C18 as claimed (size bound): every chunk text is shorter than CHUNK_SIZE
\* unless the chunk holds a paragraph of CHUNK_SIZE or more.
C18_SizeBound ==
  call # "none" =>
    \A i \in 1..Len(chunks) :
      Len(chunks[i].text) < CHUNK_SIZE \/ HoldsLongParagraph(i)

\* C18 as amended: unless the chunk holds a paragraph of CHUNK_SIZE or more,
\* a chunk text is shorter than CHUNK_SIZE when its buffer was not seeded
\* with an overlap, and shorter than CHUNK_SIZE + CHUNK_OVERLAP when it was;
\* the text behind the overlap is shorter than CHUNK_SIZE in both cases.
C18_SizeBoundWithOverlap ==
  call # "none" =>
    \A i \in 1..Len(chunks) :
      \/ HoldsLongParagraph(i)
      \/ /\ Len(Run.overlaps[i]) <= CHUNK_OVERLAP
         /\ Len(chunks[i].text) < CHUNK_SIZE + Len(Run.overlaps[i])
         /\ Len(chunks[i].text) < CHUNK_SIZE + CHUNK_OVERLAP

\* a chunk of CHUNK_SIZE characters or more made of an overlap and a
\* paragraph shorter than CHUNK_SIZE
C18_Witness ==
  /\ call = "text"
  /\ \E i \in 1..Len(chunks) :
       /\ Len(chunks[i].text) >= CHUNK_SIZE
       /\ ~HoldsLongParagraph(i)
       /\ Run.overlaps[i] # <<>>

\* ------------------------------------------------------------ C19
\* C19 (monotonic chunk ids): the chunks of one create_chunks call are
\* numbered 0, 1, 2, ... in the order they are returned, the chunk flushed
\* after the loop included.
C19_ChunkIds ==
  call # "none" =>
    \A i \in 1..Len(chunks) : chunks[i].metadata.chunk_id = i - 1

\* three chunks, the last one flushed after the loop
C19_Witness ==
  /\ call = "text"
  /\ Len(chunks) = 3
  /\ chunks[3].metadata.chunk_id = 2
  /\ Run.lasts[3] = Len(split(chunked))

\* ------------------------------------------------------------ C20
\* the text with its blank paragraphs (blank once the markers are removed)
\* left out
RECURSIVE WithoutBlank(_, _)
WithoutBlank(paras, k) ==
  IF k > Len(paras) THEN <<>>
  ELSE IF strip(CleanPara(paras, k)) = <<>> THEN WithoutBlank(paras, k + 1)
  ELSE <<CleanPara(paras, k)>> \o WithoutBlank(paras, k + 1)

\* C20 (no empty chunks): every chunk has a non-empty text with no
\* whitespace at its ends, a text of blank paragraphs only gives no chunk,
\* and the chunk texts are those of the same text without its blank
\* paragraphs and markers.
C20_NoEmptyChunks ==
  call # "none" =>
    LET paras == split(chunked)
        kept == WithoutBlank(paras, 1)
    IN /\ \A i \in 1..Len(chunks) :
            /\ chunks[i].text # <<>>
            /\ strip(chunks[i].text) = chunks[i].text
       /\ (chunked # <<>> /\ kept = <<>>) => chunks = <<>>
       /\ kept # <<>> =>
            [i \in 1..Len(chunks) |-> chunks[i].text]
              = [i \in 1..Len(ChunksOf(Join(kept))) |-> ChunksOf(Join(kept))[i].text]

\* chunks from a text with an empty paragraph and a paragraph that is only
\* a page marker
C20_Witness ==
  /\ call = "text"
  /\ chunks # <<>>
  /\ \E k \in 1..Len(split(chunked)) : split(chunked)[k] = <<>>
  /\ \E k \in 1..Len(split(chunked)) :
       split(chunked)[k] # <<>> /\ RemoveMarkers(split(chunked)[k]) = <<>>

\* ------------------------------------------------------------ C21
\* C21 (retrieval result shape): a search that did not raise returns at
\* most top_k documents by ascending distance; they are distinct entries
\* of the collection with their own text and metadata, and when the query
\* was embedded none of the top_k nearest is missing: there are
\* min(top_k, count()) of them.
C21_ResultShape ==
  (res.op = "search" /\ ~res.raised) =>
    /\ Len(res.docs) <= res.n
    /\ Len(res.docs) <= count(store)
    /\ \A i \in 1..(Len(res.docs) - 1) : res.docs[i].distance <= res.docs[i + 1].distance
    /\ \A i \in 1..Len(res.docs) :
         \E e \in store : e.document = res.docs[i].text /\ e.metadata = res.docs[i].metadata
    /\ \A i, j \in 1..Len(res.docs) :
         i # j => res.docs[i].metadata.chunk_id # res.docs[j].metadata.chunk_id
    /\ (res.cause = "none" /\ zhipu_client) =>
         Len(res.docs) = (IF count(store) < res.n THEN count(store) ELSE res.n)

\* two results at different distances, the nearer one the later chunk
C21_Witness ==
  /\ res.op = "search"
  /\ res.n = TOP_K
  /\ Len(res.docs) >= 2
  /\ res.docs[1].distance < res.docs[2].distance
  /\ res.docs[1].metadata.chunk_id > res.docs[2].metadata.chunk_id

\* ------------------------------------------------------------ C22
\* the calls that only read the collection
ReadOps == {"search", "ask", "generate_answer", "get_stats"}

\* C22 (indexed entries are immutable between rebuilds): a step that ends a
\* search, ask, generate_answer or get_stats call leaves the collection and
\* its entries as they were, whether the embedding and generation services
\* answer or fail.
C22_ReadsChangeNothing ==
  [][(res'.op \in ReadOps /\ res' # res) =>
       /\ store' = store
       /\ collection' = collection
       /\ count(store') = count(store)]_vars

\* an ask whose generation call failed, over a collection of two entries
C22_Witness ==
  /\ res.op = "ask"
  /\ res.service = "failed"
  /\ count(store) = 2
  /\ Len(res.context) = 2

\* ------------------------------------------------------------ C24
\* C24 as claimed (the no-knowledge answer means an empty store): ask
\* returns the fixed no-knowledge answer only when the collection holds no
\* entry.
C24_FallbackMeansEmpty ==
  (res.op = "ask" /\ res.kind = "no_knowledge") => count(store) = 0

\* ------------------------------------------------------------ C23
\* the pages of the range start_page..end_page that the document has and on
\* which something was recognised
RecognisedPages ==
  {p \in ChapterPages : p <= end_page /\ p < doc /\ strip(recognised[p]) # <<>>}

\* the block of page p: its 1-based marker, a newline, its cleaned text
PageBlock(p) == Marker(p + 1) \o <<NL>> \o _clean_text(strip(recognised[p]))

RECURSIVE AscendingBlocks(_)
AscendingBlocks(S) ==
  IF S = {} THEN <<>>
  ELSE <<PageBlock(MinOf(S))>> \o AscendingBlocks(S \ {MinOf(S)})

\* C23: a step that runs extract_chapter_text on a processor with a client
\* (directly, or from create_chunks without a text) leaves as chapter text
\* the blocks of exactly the pages of the range with a non-empty recognised
\* text, in ascending page order, joined by blank lines; a page with nothing
\* recognised leaves neither a marker nor a block.
C23_ChapterAssembly ==
  [][(pclient /\ (ExtractChapterText \/ chapter_text' # chapter_text))
       => chapter_text' = Join(AscendingBlocks(RecognisedPages'))]_vars

\* the first page of the range gave nothing, the second gave a text: the
\* chapter text starts with the marker of the second page
C23_Witness ==
  /\ pclient
  /\ doc = start_page + 2
  /\ recognised[start_page] = <<>>
  /\ recognised[start_page + 1] # <<>>
  /\ chapter_text = PageBlock(start_page + 1)

\* ------------------------------------------------------------ C25
\* C25: between the actions of a session, db_initialized is true exactly
\* when the collection holds at least one entry.
C25_FlagMatchesStore ==
  (kb_pc = "idle") => (db_initialized <=> (get_stats(collection, store) > 0))

\* ------------------------------------------------------------ C27
\* the id that ends in the decimal digits of i
IdOfIndex(i) ==
  <<"c", "h", "u", "n", "k", "_">> \o ToStr(CHAPTER_NUMBER) \o <<"_">> \o ToStr(i)

\* C27: chunk lists as create_chunks numbers them (chunk_id = position,
\* from 0) are loaded by add_documents so that every persisted entry has
\* the id chunk_{chapter}_{i} of its own chunk_id i, whichever other chunks
\* failed to embed.
C27_IdMatchesChunkId ==
  \A e \in store :
    \E i \in 0..MaxBatch : e.id = IdOfIndex(i) /\ e.metadata.chunk_id = i

\* the first chunk of the new batch failed, the third is persisted under
\* the id of index 2
C27_Witness ==
  /\ ad_pc = "idle"
  /\ 0 \in failed
  /\ \E e \in store :
       /\ e.id = IdOfIndex(2)
       /\ e.metadata.chunk_id = 2
       /\ e.document = main_chunks[3].text

\* ------------------------------------------------------------ C28
\* the pages of all markers of s, in the order of the text
RECURSIVE MarkerPages(_)
MarkerPages(s) ==
  LET i == MarkerStart(s)
  IN IF i = 0 THEN <<>>
     ELSE <<MarkerPage(s, i)>> \o MarkerPages(Tail2(s, MarkerEnd(s, i) + 1))

Ascending(q) == \A i, j \in 1..Len(q) : i < j => q[i] <= q[j]

\* the largest of the first page of the chapter and the markers of s
LargestPage(s) ==
  LET q == MarkerPages(s)
  IN CHOOSE m \in {start_page + 1} \cup {q[i] : i \in 1..Len(q)} :
       \A i \in 1..Len(q) : q[i] <= m /\ start_page + 1 <= m

PageTagsFollow(s) ==
  /\ \A i, j \in 1..Len(chunks) :
       i < j => chunks[i].metadata.page <= chunks[j].metadata.page
  /\ \A i \in 1..Len(chunks) :
       /\ start_page + 1 <= chunks[i].metadata.page
       /\ chunks[i].metadata.page <= LargestPage(s)

\* C28 as claimed (page tags follow the text): when the markers of the text
\* that was split are in ascending order, the page tags of the chunks do not
\* decrease along the chunk ids and lie between the first page of the
\* chapter and the largest marker.
C28_PageTagsAscendingMarkers ==
  (call # "none" /\ Ascending(MarkerPages(chunked))) => PageTagsFollow(chunked)

\* C28 with the condition the claim leaves out: the markers are in ascending
\* order and none is below the first page of the chapter, which is the page
\* of the text before the first marker.
C28_PageTagsFromStartPage ==
  (/\ call # "none"
   /\ Ascending(MarkerPages(chunked))
   /\ \A i \in 1..Len(MarkerPages(chunked)) : start_page + 1 <= MarkerPages(chunked)[i])
    => PageTagsFollow(chunked)

\* a text with the markers of two pages in ascending order, split into
\* chunks tagged with the first and with the second
C28_Witness ==
  /\ call # "none"
  /\ MarkerPages(chunked) = <<start_page + 2, start_page + 3>>
  /\ Len(chunks) >= 2
  /\ chunks[1].metadata.page = start_page + 2
  /\ chunks[Len(chunks)].metadata.page = start_page + 3

\* ------------------------------------------------------------ C29
\* C29: a login with the name and the password of a registration the app
\* accepted in an earlier run of the script is accepted.
C29_RegisteredCanLogin ==
  (/\ ui_last.op = "login"
   /\ ui_last.username # ""
   /\ registered[ui_last.username] # ""
   /\ registered[ui_last.username] = ui_last.password) => ui_last.ok

\* ------------------------------------------------------------ C30
\* C30 (quiz scoring): 0 <= correct <= total, and every generated quiz has
\* been added to total at most once: total is the number of quizzes that
\* were added, the quiz on display was added exactly when quiz_answered is
\* set, and no quiz is marked answered without a quiz on display.
C30_QuizCountedOnce ==
  /\ 0 <= quiz_results.correct
  /\ quiz_results.correct <= quiz_results.total
  /\ DOMAIN adds = 1..generated
  /\ \A q \in DOMAIN adds : adds[q] <= 1
  /\ quiz_results.total = Cardinality({q \in DOMAIN adds : adds[q] = 1})
  /\ quiz_answered => current_quiz # 0
  /\ current_quiz # 0 => (quiz_answered <=> adds[current_quiz] = 1)

\* three quizzes generated, one of the first two replaced unanswered, two
\* answered, one of them correctly
C30_Witness ==
  /\ generated = 3
  /\ current_quiz = 3
  /\ quiz_answered
  /\ quiz_results = [correct |-> 1, total |-> 2]

\* ------------------------------------------------------------ C26
\* what a search returns of a collection with the entries st, as a set
DocsOf(st) == {[text |-> e.document, metadata |-> e.metadata] : e \in st}

\* C26: a search of another engine that runs at any points of a rebuild
\* and does not fail gets the complete entries the collection had before
\* the rebuild, or nothing, or, once every embedding has finished and the
\* one add call has been made, the entries of all chunks of the batch that
\* were embedded; never some of the batch without the rest.
C26_ConcurrentView ==
  [][(seen' # seen /\ seen'.valid /\ ~seen'.raised) =>
       \/ seen'.docs = DocsOf(pre_store)
       \/ seen'.docs = {}
       \/ /\ main_pc \in {"verify", "done"}
          /\ ad_i = Len(main_chunks)
          /\ seen'.docs = DocsOf(Survivors(main_chunks, failed))]_vars

\* a search that counted the entries from before the rebuild and whose
\* query came while add_documents held two embedded chunks it had not yet
\* added: nothing
C26_Witness ==
  /\ seen.valid
  /\ ~seen.raised
  /\ seen.counted = Cardinality(pre_store)
  /\ seen.counted > 0
  /\ seen.pending >= 2
  /\ seen.docs = {}
  /\ collection

====
